---------------------------- MODULE Spec2Model ----------------------------
(***************************************************************************)
(* Payment-statement extension: the background worker with reconciliation  *)
(* (src/unnamed/part_000), the popup (src/src/popup.ts) and the earlier    *)
(* background worker (src/src/background.ts), over the shared IndexedDB    *)
(* object store "summaries".                                               *)
(*                                                                         *)
(* Text is a sequence of one-character strings.  Model output is a         *)
(* sequence of lexical tokens (braces, commas, "key": value pairs, the     *)
(* marker phrase, prose, whitespace), delivered in stream chunks.          *)
(***************************************************************************)
EXTENDS Integers, Sequences, FiniteSets, TLC

(***************************************************************************)
(* Bounds of the model.                                                    *)
(***************************************************************************)
MaxStore == 2
MaxRuns == 2
MaxLoads == 1

(***************************************************************************)
(* Program constants.                                                      *)
(***************************************************************************)
MaxAttempts == 10

(***************************************************************************)
(* Text.                                                                   *)
(***************************************************************************)
Digits == <<"0", "1", "2", "3", "4", "5", "6", "7", "8", "9">>

IsDigit(c) == \E i \in 1..10 : Digits[i] = c

DigitVal(c) == (CHOOSE i \in 1..10 : Digits[i] = c) - 1

IsSpace(c) == c \in {" ", "\n", "\t", "\r"}

\* String.prototype.replace(/[,]/g, ''): every comma removed.
StripCommas(s) == SelectSeq(s, LAMBDA c : c # ",")

\* String.prototype.trim(): leading and trailing whitespace removed.
TrimText(s) ==
  LET idx == {i \in 1..Len(s) : ~IsSpace(s[i])}
  IN  IF idx = {} THEN <<>>
      ELSE LET lo == CHOOSE i \in idx : \A j \in idx : i <= j
               hi == CHOOSE i \in idx : \A j \in idx : i >= j
           IN  SubSeq(s, lo, hi)

\* The length of the longest prefix of s from position i on made of digits.
RECURSIVE DigitRun(_, _)
DigitRun(s, i) ==
  IF i <= Len(s) /\ IsDigit(s[i]) THEN 1 + DigitRun(s, i + 1) ELSE 0

\* The value of the digits s[i..i+n-1].
RECURSIVE DigitsValue(_, _, _)
DigitsValue(s, i, n) ==
  IF n = 0 THEN 0
  ELSE 10 * DigitsValue(s, i, n - 1) + DigitVal(s[i + n - 1])

\* The number of leading whitespace characters of s.
RECURSIVE LeadingSpaces(_, _)
LeadingSpaces(s, i) ==
  IF i <= Len(s) /\ IsSpace(s[i]) THEN 1 + LeadingSpaces(s, i + 1) ELSE 0

\* parseFloat: skips leading whitespace, reads an optional sign, the integer
\* digits, and a fraction; stops at the first character that cannot continue
\* the number (a comma included); NaN when no digit was read.  The value is
\* kept in thousandths (the inputs carry at most three fraction digits).
ParseFloat(s) ==
  LET p0   == 1 + LeadingSpaces(s, 1)
      sgn  == p0 <= Len(s) /\ s[p0] \in {"-", "+"}
      neg  == p0 <= Len(s) /\ s[p0] = "-"
      p1   == IF sgn THEN p0 + 1 ELSE p0
      ni   == DigitRun(s, p1)
      p2   == p1 + ni
      dot  == p2 <= Len(s) /\ s[p2] = "."
      nf   == IF dot THEN DigitRun(s, p2 + 1) ELSE 0
      nf3  == IF nf > 3 THEN 3 ELSE nf
      frac == DigitsValue(s, p2 + 1, nf3)
      scal == IF nf3 = 0 THEN 0
              ELSE IF nf3 = 1 THEN 100 * frac
              ELSE IF nf3 = 2 THEN 10 * frac ELSE frac
  IN  IF ni + nf = 0 THEN [nan |-> TRUE, neg |-> FALSE, milli |-> 0]
      ELSE [nan |-> FALSE, neg |-> neg,
            milli |-> 1000 * DigitsValue(s, p1, ni) + scal]

\* The decimal digits of n >= 0.
RECURSIVE NatText(_)
NatText(n) ==
  IF n < 10 THEN <<Digits[n + 1]>>
  ELSE NatText(n \div 10) \o <<Digits[(n % 10) + 1]>>

\* Number.prototype.toFixed(2): two fraction digits, rounded to nearest;
\* "NaN" for NaN.
ToFixed2(x) ==
  IF x.nan THEN <<"N", "a", "N">>
  ELSE LET cents == (x.milli + 5) \div 10
           body  == NatText(cents \div 100) \o <<".">>
                      \o <<Digits[((cents \div 10) % 10) + 1]>>
                      \o <<Digits[(cents % 10) + 1]>>
       IN  IF x.neg /\ x.milli > 0 THEN <<"-">> \o body ELSE body

\* parseFloat(t).toFixed(2).replace(/[,]/g, ''), as updateMatchingRecord
\* formats both amounts.
FormatAmount(t) == StripCommas(ToFixed2(ParseFloat(t)))

(***************************************************************************)
(* JSON values and the fields of a payment record.                         *)
(***************************************************************************)
Str(s) == [ty |-> "str", s |-> s]

Num(s) == [ty |-> "num", s |-> s]

Undefined == [ty |-> "undef", s |-> <<>>]

IsString(v) == v.ty = "str"

\* The === of two JSON scalars.
StrictEq(a, b) == a.ty = b.ty /\ a.s = b.s

D1 == <<"0", "1", "-", "0", "5">>
D2 == <<"0", "1", "-", "0", "6">>
A1234c == <<"1", ",", "2", "3", "4", ".", "0", "0">>
A1234 == <<"1", "2", "3", "4", ".", "0", "0">>
A1234p01 == <<"1", "2", "3", "4", ".", "0", "1">>
A1 == <<"1", ".", "0", "0">>
P1234 == <<"1", "2", "3", "4">>
PTemplate == <<"X", "X", ".", "X", "X">>
BankPadded == <<" ", "X", " ">>
BankX == <<"X">>

\* interface PaymentData: the object handed to savePaymentSummaryToIndexedDB.
PaymentData(due, amt, bank) == [due |-> due, amt |-> amt, bank |-> bank]

\* Well-formed records the inserts are called with.
GoodInputs ==
  {PaymentData(Str(D1), Str(A1234c), Str(BankPadded)),
   PaymentData(Str(D1), Str(A1234p01), Str(BankX)),
   PaymentData(Str(D2), Str(A1234), Str(BankX)),
   PaymentData(Str(D1), Str(A1), Str(BankX)),
   PaymentData(Str(D2), Str(PTemplate), Str(BankX))}

\* Records with a field missing or of another type.
PartialInputs ==
  {PaymentData(Undefined, Str(A1234), Str(BankX)),
   PaymentData(Str(D2), Str(A1234p01), Undefined),
   PaymentData(Str(D1), Num(P1234), Str(BankX))}

\* The well-formed records of every amount and due date.
AllGoodInputs ==
  {PaymentData(Str(d), Str(a), Str(b)) :
     d \in {D1, D2}, a \in {A1234c, A1234, A1234p01, A1},
     b \in {BankPadded}}

SaveInputs == AllGoodInputs \cup PartialInputs

\* Amounts updateMatchingRecord is called with.
PaidInputs == {Str(P1234), Str(A1234c), Str(PTemplate), Undefined}

(***************************************************************************)
(* State.                                                                  *)
(***************************************************************************)
Runs == 1..MaxRuns

VARIABLES
  store,      \* object store "summaries": the records in key order
  clock,      \* the time new Date() reads
  openq,      \* per context, the indexedDB.open requests not yet answered
  txq,        \* the live transactions on "summaries", in creation order
  ctx,        \* the script a run executes in: "bg", "popup" or "legacy"
  savePc,     \* savePaymentSummaryToIndexedDB of a run
  saveArg,    \*   its paymentData
  saveNew,    \*   the summary handed to store.add, not yet committed
  updPc,      \* updateMatchingRecord of a run
  updArg,     \*   its amount
  updPuts,    \*   the summaries handed to store.put, not yet committed
  notifPc,    \* sendNotifications / notifyFromIndexedDB of a run
  notes,      \*   the notifications it created
  uncaught,   \* runs in which an exception escaped every handler
  engine,     \* per context, whether the global engine is set
  loading,    \* per context, the listeners' CreateMLCEngine calls in flight
  chatHistory,\* per context, the runs whose prompt the global array holds
  kind,       \* what a run is: "due", "success", "sweep" or a direct "call"
  pc,         \* where summarizeEmail / handlePaymentSuccess of a run stands
  attempts,   \* waitForEngine's counter
  inits,      \* the initializeEngine calls waitForEngine of a run has made
  stream,     \* the chunks the completion stream has yet to deliver
  cur,        \* curMessage
  request,    \* the messages the completion request of a run was made with
  userToken,  \* whether the global userToken holds a token
  popupActive,\* the global flag of the background script
  scanPc,     \* where checkEmails / checkPaymentSuccessEmails stands
  messages,   \*   emailData.messages: the ids the list request returned
  scanI,      \*   the loop index i, counted from 1
  validEmails,\*   the emails that met the keyword test, in the order pushed
  fetched,    \*   the messages fetchEmailDetails returned the details of
  failed,     \*   the upstream request of the scan that failed last
  handed,     \*   the messages whose content the scan has handed to a run
  mail,       \* the message a run was called with, 0 when called with any
  alarm,      \* the worker and the name of the alarm onAlarm handled last
  ports,      \* the ports "web_llm_service_worker" that are connected
  handler,    \* the worker's handler is defined
  reconciled  \* history: per message whose reply updateMatchingRecord has
              \*   scanned the store for, the records stored at its first scan

storeVars == <<store, clock, openq, txq, ctx, savePc, saveArg, saveNew,
               updPc, updArg, updPuts, notifPc, notes, uncaught>>

pipeVars == <<engine, loading, chatHistory, kind, pc, attempts, inits,
              stream, cur, request>>

scanVars == <<userToken, popupActive, scanPc, messages, scanI, validEmails,
              fetched, failed, handed, mail, alarm, ports, handler,
              reconciled>>

vars == <<storeVars, pipeVars, scanVars>>

\* checkEmails and checkPaymentSuccessEmails; the model follows one scan of
\* each.
Scans == {"due", "success"}

NoData == PaymentData(Undefined, Undefined, Undefined)

Contexts == {"bg", "popup", "legacy"}

Init ==
  /\ store = <<>>
  /\ clock = 1
  /\ openq = [c \in Contexts |-> <<>>]
  /\ txq = <<>>
  /\ ctx = [r \in Runs |-> "bg"]
  /\ savePc = [r \in Runs |-> "none"]
  /\ saveArg = [r \in Runs |-> NoData]
  /\ saveNew = [r \in Runs |-> <<>>]
  /\ updPc = [r \in Runs |-> "none"]
  /\ updArg = [r \in Runs |-> Undefined]
  /\ updPuts = [r \in Runs |-> <<>>]
  /\ notifPc = [r \in Runs |-> "none"]
  /\ notes = [r \in Runs |-> <<>>]
  /\ uncaught = {}
  /\ engine = [c \in Contexts |-> FALSE]
  /\ loading = [c \in Contexts |-> 0]
  /\ chatHistory = [c \in Contexts |-> <<>>]
  /\ kind = [r \in Runs |-> "none"]
  /\ pc = [r \in Runs |-> "idle"]
  /\ attempts = [r \in Runs |-> 0]
  /\ inits = [r \in Runs |-> 0]
  /\ stream = [r \in Runs |-> <<>>]
  /\ cur = [r \in Runs |-> <<>>]
  /\ request = [r \in Runs |-> <<>>]
  /\ userToken = FALSE
  /\ popupActive = FALSE
  /\ scanPc = [k \in Scans |-> "idle"]
  /\ messages = [k \in Scans |-> <<>>]
  /\ scanI = [k \in Scans |-> 0]
  /\ validEmails = [k \in Scans |-> <<>>]
  /\ fetched = [k \in Scans |-> <<>>]
  /\ failed = [k \in Scans |-> "none"]
  /\ handed = [k \in Scans |-> <<>>]
  /\ mail = [r \in Runs |-> 0]
  /\ alarm = <<>>
  /\ ports = {}
  /\ handler = FALSE
  /\ reconciled = {}

(***************************************************************************)
(* The object store's transactions.                                        *)
(***************************************************************************)
Tx(r, chain, mode) == [run |-> r, chain |-> chain, mode |-> mode]

TxIndex(r, chain) ==
  CHOOSE i \in 1..Len(txq) : txq[i].run = r /\ txq[i].chain = chain

\* Two transactions on the same store exclude each other unless both only read.
Conflicts(m1, m2) == m1 = "rw" \/ m2 = "rw"

\* Transactions that start as soon as they are created, whatever else is live.
TxStartsAtOnce(r, chain) ==
  \E i \in 1..Len(txq) : txq[i].run = r /\ txq[i].chain = chain

\* A transaction starts once every transaction created before it whose scope
\* and mode conflict with its own has finished.
TxCanStart(r, chain) ==
  /\ \E i \in 1..Len(txq) : txq[i].run = r /\ txq[i].chain = chain
  /\ \A j \in 1..(TxIndex(r, chain) - 1) :
       ~Conflicts(txq[j].mode, txq[TxIndex(r, chain)].mode)

TxRemove(r, chain) ==
  SelectSeq(txq, LAMBDA t : ~(t.run = r /\ t.chain = chain))

OpenReq(r, chain) == [run |-> r, chain |-> chain]

\* indexedDB.open answers a context's requests in the order they were made.
OpenHead(r, chain) ==
  /\ openq[ctx[r]] # <<>>
  /\ Head(openq[ctx[r]]) = OpenReq(r, chain)

OpenPop(r) == [openq EXCEPT ![ctx[r]] = Tail(@)]

(***************************************************************************)
(* Runs.                                                                   *)
(***************************************************************************)
ChainOver(p) == p \in {"none", "done", "dup", "failed"}

PcOver(p) ==
  p \in {"idle", "done", "failed_engine", "failed_create", "failed_stream",
         "failed_parse", "failed_exception"}


\* Everything run r started has come to its end.
RunOver(r) ==
  /\ kind[r] # "none"
  /\ PcOver(pc[r])
  /\ ChainOver(savePc[r]) /\ ChainOver(updPc[r]) /\ ChainOver(notifPc[r])

Unused(r) == kind[r] = "none" \/ RunOver(r)

\* A trigger takes the first run that is not in use.
FreeRun(r) == Unused(r) /\ \A q \in Runs : q < r => ~Unused(q)

\* The inserts that may still add a record.
SavesInFlight ==
  Cardinality({r \in Runs : savePc[r] \in {"open", "queued", "active"}})

\* The model stops triggering inserts when the store could exceed MaxStore.
RoomToSave == Len(store) + SavesInFlight < MaxStore

\* A trigger starts run r in script c: whatever an earlier, finished run left
\* in the slot is gone.
TakeRun(r, k, c) ==
  /\ FreeRun(r)
  /\ kind' = [kind EXCEPT ![r] = k]
  /\ ctx' = [ctx EXCEPT ![r] = c]
  /\ attempts' = [attempts EXCEPT ![r] = 0]
  /\ inits' = [inits EXCEPT ![r] = 0]
  /\ stream' = [stream EXCEPT ![r] = <<>>]
  /\ cur' = [cur EXCEPT ![r] = <<>>]
  /\ notes' = [notes EXCEPT ![r] = <<>>]
  /\ uncaught' = uncaught \ {r}

\* A direct call of a store function: no summarizeEmail runs.
Begin(r, k, c) ==
  /\ TakeRun(r, k, c)
  /\ pc' = [pc EXCEPT ![r] = "idle"]
  /\ request' = [request EXCEPT ![r] = <<>>]
  /\ UNCHANGED <<engine, loading, chatHistory>>

(***************************************************************************)
(* savePaymentSummaryToIndexedDB (worker with reconciliation, and popup).   *)
(***************************************************************************)
\* The call: indexedDB.open is requested; the rest runs in its callbacks.
CallSave(r, c, pd) ==
  /\ UNCHANGED scanVars
  /\ Begin(r, "call", c)
  /\ savePc' = [savePc EXCEPT ![r] = "open"]
  /\ saveArg' = [saveArg EXCEPT ![r] = pd]
  /\ updPc' = [updPc EXCEPT ![r] = "none"]
  /\ updArg' = [updArg EXCEPT ![r] = Undefined]
  /\ notifPc' = [notifPc EXCEPT ![r] = "none"]
  /\ openq' = [openq EXCEPT ![c] = Append(@, OpenReq(r, "save"))]
  /\ UNCHANGED <<store, clock, txq, saveNew, updPuts>>

\* request.onerror of openDatabase: the promise rejects, .catch logs.
SaveOpenFailed(r) ==
  /\ UNCHANGED scanVars
  /\ UNCHANGED pipeVars
  /\ savePc[r] = "open"
  /\ OpenHead(r, "save")
  /\ openq' = OpenPop(r)
  /\ savePc' = [savePc EXCEPT ![r] = "failed"]
  /\ UNCHANGED <<store, clock, txq, ctx, saveArg, saveNew, updPc, updArg,
                 updPuts, notifPc, notes, uncaught>>

\* The .then callback: db.transaction("summaries", "readwrite"), newTotal and
\* newDue, store.getAll().  paymentData["Total Amount Due"].replace throws
\* when the amount is no string: the promise rejects, .catch logs, and the
\* transaction, holding no request, finishes at once.
SaveOpened(r) ==
  /\ UNCHANGED scanVars
  /\ UNCHANGED pipeVars
  /\ savePc[r] = "open"
  /\ ctx[r] \in {"bg", "popup"}
  /\ OpenHead(r, "save")
  /\ openq' = OpenPop(r)
  /\ IF IsString(saveArg[r].amt)
       THEN /\ txq' = Append(txq, Tx(r, "save", "rw"))
            /\ savePc' = [savePc EXCEPT ![r] = "queued"]
       ELSE /\ txq' = txq
            /\ savePc' = [savePc EXCEPT ![r] = "failed"]
  /\ UNCHANGED <<store, clock, ctx, saveArg, saveNew, updPc, updArg, updPuts,
                 notifPc, notes, uncaught>>

\* The insert of a script that checks nothing before it adds.
DupScanNever(st, i, newTotal, newDue) == "none"

\* A check that looks at the unpaid summaries only.
RECURSIVE DupScanUnpaid(_, _, _, _)
DupScanUnpaid(st, i, newTotal, newDue) ==
  IF i > Len(st) THEN "none"
  ELSE IF st[i].paymentStatus = "paid"
    THEN DupScanUnpaid(st, i + 1, newTotal, newDue)
  ELSE IF ~IsString(st[i].totalAmountDue) THEN "throw"
  ELSE IF StripCommas(st[i].totalAmountDue.s) = newTotal
            /\ StrictEq(st[i].DueDate, newDue) THEN "dup"
  ELSE DupScanUnpaid(st, i + 1, newTotal, newDue)

\* existingSummaries.some(...): "dup" when a stored summary has the same
\* comma-stripped amount and the same due date, "none" when none has, and
\* "throw" when summary.totalAmountDue.replace meets an amount that is no
\* string before a duplicate is found.
RECURSIVE DupScan(_, _, _, _)
DupScan(st, i, newTotal, newDue) ==
  IF i > Len(st) THEN "none"
  ELSE IF ~IsString(st[i].totalAmountDue) THEN "throw"
  ELSE IF StripCommas(st[i].totalAmountDue.s) = newTotal
            /\ StrictEq(st[i].DueDate, newDue) THEN "dup"
  ELSE DupScan(st, i + 1, newTotal, newDue)

\* The summary savePaymentSummaryToIndexedDB builds; the key generator gives
\* the id when the record is added.
NewSummary(pd, now) ==
  [id |-> 0,
   DueDate |-> pd.due,
   totalAmountDue |-> Str(StripCommas(pd.amt.s)),
   BankName |-> Str(TrimText(pd.bank.s)),
   paymentStatus |-> "unpaid",
   summaryTimestamp |-> now]

\* getAllRequest.onsuccess, once the transaction has started.  A duplicate:
\* nothing is added ("Duplicate summary found. Not saving.").  No duplicate:
\* the summary is built and handed to store.add; paymentData["Bank Name"]
\* .trim() throws when the bank name is no string, the exception leaves the
\* handler and the transaction aborts.
SaveChecked(r) ==
  /\ UNCHANGED scanVars
  /\ UNCHANGED pipeVars
  /\ savePc[r] = "queued"
  /\ TxCanStart(r, "save")
  /\ LET newTotal == StripCommas(saveArg[r].amt.s)
         newDue   == saveArg[r].due
         scan     == DupScan(store, 1, newTotal, newDue)
     IN  \/ /\ scan = "dup"
            /\ savePc' = [savePc EXCEPT ![r] = "dup"]
            /\ txq' = TxRemove(r, "save")
            /\ UNCHANGED <<saveNew, clock, uncaught>>
         \/ /\ scan = "none"
            /\ IsString(saveArg[r].bank)
            /\ savePc' = [savePc EXCEPT ![r] = "active"]
            /\ saveNew' = [saveNew EXCEPT
                             ![r] = <<NewSummary(saveArg[r], clock)>>]
            /\ clock' = clock + 1
            /\ UNCHANGED <<txq, uncaught>>
         \/ /\ \/ scan = "throw"
               \/ scan = "none" /\ ~IsString(saveArg[r].bank)
            /\ savePc' = [savePc EXCEPT ![r] = "failed"]
            /\ txq' = TxRemove(r, "save")
            /\ uncaught' = uncaught \cup {r}
            /\ UNCHANGED <<saveNew, clock>>
  /\ UNCHANGED <<store, openq, ctx, saveArg, updPc, updArg, updPuts,
                 notifPc, notes>>

\* getAllRequest.onerror: logged; the transaction aborts.
SaveCheckFailed(r) ==
  /\ UNCHANGED scanVars
  /\ UNCHANGED pipeVars
  /\ savePc[r] = "queued"
  /\ TxCanStart(r, "save")
  /\ savePc' = [savePc EXCEPT ![r] = "failed"]
  /\ txq' = TxRemove(r, "save")
  /\ UNCHANGED <<store, clock, openq, ctx, saveArg, saveNew, updPc, updArg,
                 updPuts, notifPc, notes, uncaught>>

\* store.add with the key generator of an autoIncrement store.
AddRecord(st, rec) == Append(st, [rec EXCEPT !.id = Len(st) + 1])

\* The summary the earlier worker builds: the fields as they came.
LegacySummary(pd, now) ==
  [id |-> 0,
   DueDate |-> pd.due,
   totalAmountDue |-> pd.amt,
   BankName |-> pd.bank,
   paymentStatus |-> "unpaid",
   summaryTimestamp |-> now]

\* The .then callback of the earlier worker's insert: db.transaction,
\* the summary, store.add.  No stored summary is read.
LegacySaveOpened(r) ==
  /\ UNCHANGED scanVars
  /\ UNCHANGED pipeVars
  /\ savePc[r] = "open"
  /\ ctx[r] = "legacy"
  /\ OpenHead(r, "save")
  /\ openq' = OpenPop(r)
  /\ txq' = Append(txq, Tx(r, "save", "rw"))
  /\ savePc' = [savePc EXCEPT ![r] = "active"]
  /\ saveNew' = [saveNew EXCEPT ![r] = <<LegacySummary(saveArg[r], clock)>>]
  /\ clock' = clock + 1
  /\ UNCHANGED <<store, ctx, saveArg, updPc, updArg, updPuts, notifPc, notes,
                 uncaught>>

\* The add is carried out, the transaction having started, and the
\* transaction commits.
SaveCommitted(r) ==
  /\ UNCHANGED scanVars
  /\ UNCHANGED pipeVars
  /\ savePc[r] = "active"
  /\ TxCanStart(r, "save")
  /\ store' = AddRecord(store, saveNew[r][1])
  /\ saveNew' = [saveNew EXCEPT ![r] = <<>>]
  /\ savePc' = [savePc EXCEPT ![r] = "done"]
  /\ txq' = TxRemove(r, "save")
  /\ UNCHANGED <<clock, openq, ctx, saveArg, updPc, updArg, updPuts,
                 notifPc, notes, uncaught>>

(***************************************************************************)
(* updateMatchingRecord (worker with reconciliation).                       *)
(***************************************************************************)
CallUpdate(r, amount) ==
  /\ UNCHANGED scanVars
  /\ Begin(r, "call", "bg")
  /\ savePc' = [savePc EXCEPT ![r] = "none"]
  /\ saveArg' = [saveArg EXCEPT ![r] = NoData]
  /\ updPc' = [updPc EXCEPT ![r] = "open"]
  /\ updArg' = [updArg EXCEPT ![r] = amount]
  /\ notifPc' = [notifPc EXCEPT ![r] = "none"]
  /\ openq' = [openq EXCEPT !["bg"] = Append(@, OpenReq(r, "upd"))]
  /\ UNCHANGED <<store, clock, txq, saveNew, updPuts>>

\* await openDatabase() rejects: caught and logged.
UpdOpenFailed(r) ==
  /\ UNCHANGED scanVars
  /\ UNCHANGED pipeVars
  /\ updPc[r] = "open"
  /\ OpenHead(r, "upd")
  /\ openq' = OpenPop(r)
  /\ updPc' = [updPc EXCEPT ![r] = "failed"]
  /\ UNCHANGED <<store, clock, txq, ctx, savePc, saveArg, saveNew, updArg,
                 updPuts, notifPc, notes, uncaught>>

\* db.transaction("summaries", "readwrite") and store.getAll().
UpdOpened(r) ==
  /\ UNCHANGED scanVars
  /\ UNCHANGED pipeVars
  /\ updPc[r] = "open"
  /\ OpenHead(r, "upd")
  /\ openq' = OpenPop(r)
  /\ txq' = Append(txq, Tx(r, "upd", "rw"))
  /\ updPc' = [updPc EXCEPT ![r] = "queued"]
  /\ UNCHANGED <<store, clock, ctx, savePc, saveArg, saveNew, updArg,
                 updPuts, notifPc, notes, uncaught>>

\* The text parseFloat reads from a value: ToString of it.
ToText(v) ==
  IF v.ty = "undef" THEN <<"u", "n", "d", "e", "f", "i", "n", "e", "d">>
  ELSE v.s

\* The test of updateMatchingRecord's forEach.
Matches(summary, amount) ==
  /\ FormatAmount(ToText(summary.totalAmountDue)) = FormatAmount(ToText(amount))
  /\ summary.paymentStatus # "paid"

\* A forEach that writes every summary back, its status set from the
\* comparison alone.
MarkedFromComparison(st, amount) ==
  [i \in 1..Len(st) |->
     [st[i] EXCEPT !.paymentStatus =
        IF FormatAmount(ToText(st[i].totalAmountDue))
             = FormatAmount(ToText(amount))
          THEN "paid" ELSE "unpaid"]]

\* A forEach that also stamps the summaries it marks.
MarkedPaidRestamped(st, amount) ==
  LET hit == SelectSeq(st, LAMBDA summary : Matches(summary, amount))
  IN  [i \in 1..Len(hit) |->
         [hit[i] EXCEPT !.paymentStatus = "paid", !.summaryTimestamp = 0]]

\* A loop that stops at the first summary it marks.
MarkedFirstOnly(st, amount) ==
  LET hit == SelectSeq(st, LAMBDA summary : Matches(summary, amount))
  IN  IF hit = <<>> THEN <<>>
      ELSE <<[hit[1] EXCEPT !.paymentStatus = "paid"]>>

\* The summaries the forEach hands to store.put, each with paymentStatus set.
MarkedPaid(st, amount) ==
  LET hit == SelectSeq(st, LAMBDA summary : Matches(summary, amount))
  IN  [i \in 1..Len(hit) |-> [hit[i] EXCEPT !.paymentStatus = "paid"]]

\* request.onsuccess, once the transaction has started.
UpdScanned(r) ==
  /\ UNCHANGED <<userToken, popupActive, scanPc, messages, scanI, validEmails,
                 fetched, failed, handed, mail, alarm, ports, handler>>
  /\ reconciled' =
       IF mail[r] = 0 \/ \E h \in reconciled : h.msg = mail[r]
       THEN reconciled
       ELSE reconciled \cup {[msg |-> mail[r], len |-> Len(store)]}
  /\ UNCHANGED pipeVars
  /\ updPc[r] = "queued"
  /\ TxCanStart(r, "upd")
  /\ LET puts == MarkedPaid(store, updArg[r])
     IN  IF puts = <<>>
           THEN /\ updPc' = [updPc EXCEPT ![r] = "done"]
                /\ txq' = TxRemove(r, "upd")
                /\ UNCHANGED updPuts
           ELSE /\ updPc' = [updPc EXCEPT ![r] = "active"]
                /\ updPuts' = [updPuts EXCEPT ![r] = puts]
                /\ UNCHANGED txq
  /\ UNCHANGED <<store, clock, openq, ctx, savePc, saveArg, saveNew, updArg,
                 notifPc, notes, uncaught>>

\* request.onerror: logged; the transaction aborts.
UpdScanFailed(r) ==
  /\ UNCHANGED scanVars
  /\ UNCHANGED pipeVars
  /\ updPc[r] = "queued"
  /\ TxCanStart(r, "upd")
  /\ updPc' = [updPc EXCEPT ![r] = "failed"]
  /\ txq' = TxRemove(r, "upd")
  /\ UNCHANGED <<store, clock, openq, ctx, savePc, saveArg, saveNew, updArg,
                 updPuts, notifPc, notes, uncaught>>

\* store.put: the record under the summary's key is replaced by the summary.
RECURSIVE PutAll(_, _)
PutAll(st, puts) ==
  IF puts = <<>> THEN st
  ELSE PutAll([i \in 1..Len(st) |->
                 IF st[i].id = Head(puts).id THEN Head(puts) ELSE st[i]],
              Tail(puts))

\* The puts are carried out and the transaction commits.
UpdCommitted(r) ==
  /\ UNCHANGED scanVars
  /\ UNCHANGED pipeVars
  /\ updPc[r] = "active"
  /\ store' = PutAll(store, updPuts[r])
  /\ updPuts' = [updPuts EXCEPT ![r] = <<>>]
  /\ updPc' = [updPc EXCEPT ![r] = "done"]
  /\ txq' = TxRemove(r, "upd")
  /\ UNCHANGED <<clock, openq, ctx, savePc, saveArg, saveNew, updArg,
                 notifPc, notes, uncaught>>

(***************************************************************************)
(* sendNotifications (workers) and notifyFromIndexedDB (popup).             *)
(***************************************************************************)
Note(title, id) == [title |-> title, id |-> id]

SendNotifications(r, c) ==
  /\ Begin(r, "call", c)
  /\ savePc' = [savePc EXCEPT ![r] = "none"]
  /\ saveArg' = [saveArg EXCEPT ![r] = NoData]
  /\ updPc' = [updPc EXCEPT ![r] = "none"]
  /\ updArg' = [updArg EXCEPT ![r] = Undefined]
  /\ notifPc' = [notifPc EXCEPT ![r] = "open"]
  /\ openq' = [openq EXCEPT ![c] = Append(@, OpenReq(r, "notif"))]
  /\ UNCHANGED <<store, clock, txq, saveNew, updPuts>>

\* A call of it from anywhere.
CallNotify(r, c) == SendNotifications(r, c) /\ UNCHANGED scanVars

\* openDatabase() rejects: .catch creates the "Error" notification.
NotifOpenFailed(r) ==
  /\ UNCHANGED scanVars
  /\ UNCHANGED pipeVars
  /\ notifPc[r] = "open"
  /\ OpenHead(r, "notif")
  /\ openq' = OpenPop(r)
  /\ notifPc' = [notifPc EXCEPT ![r] = "failed"]
  /\ notes' = [notes EXCEPT ![r] = <<Note("Error", 0)>>]
  /\ UNCHANGED <<store, clock, txq, ctx, savePc, saveArg, saveNew, updPc,
                 updArg, updPuts, uncaught>>

\* db.transaction("summaries", "readonly") and store.getAll().
NotifOpened(r) ==
  /\ UNCHANGED scanVars
  /\ UNCHANGED pipeVars
  /\ notifPc[r] = "open"
  /\ OpenHead(r, "notif")
  /\ openq' = OpenPop(r)
  /\ txq' = Append(txq, Tx(r, "notif", "ro"))
  /\ notifPc' = [notifPc EXCEPT ![r] = "queued"]
  /\ UNCHANGED <<store, clock, ctx, savePc, saveArg, saveNew, updPc, updArg,
                 updPuts, notes, uncaught>>

\* The notifications each script creates from the summaries it read.
\* A sweep that notifies of every record, paid or not.
NotesForAll(c, st) ==
  IF st # <<>> THEN [i \in 1..Len(st) |-> Note("Payment Summary", st[i].id)]
  ELSE <<Note("No Unpaid Payments", 0)>>

NotesFor(c, st) ==
  IF c = "bg" THEN
    LET unpaid == SelectSeq(st, LAMBDA summary :
                              summary.paymentStatus = "unpaid")
    IN  IF unpaid # <<>>
          THEN [i \in 1..Len(unpaid) |->
                  Note("Payment Summary", unpaid[i].id)]
          ELSE <<Note("No Unpaid Payments", 0)>>
  ELSE IF c = "popup" THEN
    IF st # <<>> THEN <<Note("Payment Summary", st[Len(st)].id)>>
    ELSE <<Note("No Payment Summary", 0)>>
  ELSE
    IF st # <<>> THEN [i \in 1..Len(st) |-> Note("Payment Summary", st[i].id)]
    ELSE <<Note("No Payment Summary", 0)>>

\* request.onsuccess resolves with the summaries; .then creates the
\* notifications.
NotifRead(r) ==
  /\ UNCHANGED scanVars
  /\ UNCHANGED pipeVars
  /\ notifPc[r] = "queued"
  /\ TxCanStart(r, "notif")
  /\ txq' = TxRemove(r, "notif")
  /\ notifPc' = [notifPc EXCEPT ![r] = "done"]
  /\ notes' = [notes EXCEPT ![r] = NotesFor(ctx[r], store)]
  /\ UNCHANGED <<store, clock, openq, ctx, savePc, saveArg, saveNew, updPc,
                 updArg, updPuts, uncaught>>

\* request.onerror rejects: .catch creates the "Error" notification.
NotifReadFailed(r) ==
  /\ UNCHANGED scanVars
  /\ UNCHANGED pipeVars
  /\ notifPc[r] = "queued"
  /\ TxCanStart(r, "notif")
  /\ txq' = TxRemove(r, "notif")
  /\ notifPc' = [notifPc EXCEPT ![r] = "failed"]
  /\ notes' = [notes EXCEPT ![r] = <<Note("Error", 0)>>]
  /\ UNCHANGED <<store, clock, openq, ctx, savePc, saveArg, saveNew, updPc,
                 updArg, updPuts, uncaught>>

(***************************************************************************)
(* Model output: lexical tokens, and JSON.parse over them.                 *)
(***************************************************************************)
Null == [ty |-> "null", s |-> <<>>]

Tok(t) == [t |-> t, k |-> "", v |-> Undefined]

LB == Tok("lb")
RB == Tok("rb")
CM == Tok("cm")
WS == Tok("ws")
MARK == Tok("mark")
TXT == Tok("txt")

\* A "key": value member, and a scalar standing alone.
KV(k, v) == [t |-> "kv", k |-> k, v |-> v]

Scalar(v) == [t |-> "val", k |-> "", v |-> v]

\* A response kept whole, marker and what follows it included.
WholeResponse(text) == text

\* curMessage.split("This JSON format is provided for you")[0]
RECURSIVE BeforeMarker(_)
BeforeMarker(text) ==
  IF text = <<>> \/ Head(text) = MARK THEN <<>>
  ELSE <<Head(text)>> \o BeforeMarker(Tail(text))

\* .trim() of the text
RECURSIVE TrimLeft(_)
TrimLeft(text) ==
  IF text # <<>> /\ Head(text) = WS THEN TrimLeft(Tail(text)) ELSE text

RECURSIVE TrimRight(_)
TrimRight(text) ==
  IF text # <<>> /\ text[Len(text)] = WS
    THEN TrimRight(SubSeq(text, 1, Len(text) - 1))
    ELSE text

JsonResponse(curMessage) == TrimRight(TrimLeft(BeforeMarker(curMessage)))

\* JSON allows whitespace between tokens.
NoSpace(text) == SelectSeq(text, LAMBDA t : t # WS)

\* member (, member)*
RECURSIVE IsMembers(_)
IsMembers(s) ==
  /\ s # <<>>
  /\ s[1].t = "kv"
  /\ \/ Len(s) = 1
     \/ Len(s) >= 3 /\ s[2] = CM /\ IsMembers(SubSeq(s, 3, Len(s)))

\* The texts JSON.parse accepts: one scalar, or an object.
WellFormed(text) ==
  LET s == NoSpace(text)
  IN  \/ Len(s) = 1 /\ s[1].t = "val"
      \/ /\ Len(s) >= 2
         /\ s[1] = LB /\ s[Len(s)] = RB
         /\ Len(s) = 2 \/ IsMembers(SubSeq(s, 2, Len(s) - 1))

EmptyObject == [obj |-> TRUE, v |-> Undefined, members |-> <<>>]

\* The value of a well-formed text.
ParsedValue(text) ==
  LET s == NoSpace(text)
  IN  IF s[1].t = "val"
        THEN [obj |-> FALSE, v |-> s[1].v, members |-> <<>>]
        ELSE [obj |-> TRUE, v |-> Undefined,
              members |-> SelectSeq(s, LAMBDA t : t.t = "kv")]

\* A parser that yields {} where JSON.parse throws.
JSONParseOrEmpty(text) ==
  [ok |-> TRUE,
   value |-> IF WellFormed(text) THEN ParsedValue(text) ELSE EmptyObject]

\* JSON.parse: ok is FALSE where it throws SyntaxError.
JSONParse(text) ==
  [ok |-> WellFormed(text),
   value |-> IF WellFormed(text) THEN ParsedValue(text) ELSE EmptyObject]

\* paymentData[key] throws TypeError on null.
PropertyThrows(value) == ~value.obj /\ value.v = Null

\* paymentData[key]: the last member of that key; undefined when the object
\* has none or the value is a number or a string.
Get(value, key) ==
  LET hits == SelectSeq(value.members, LAMBDA t : t.k = key)
  IN  IF hits = <<>> THEN Undefined ELSE hits[Len(hits)].v

GoodObject(due, amt, bank) ==
  <<LB, KV("Due Date", Str(due)), CM, KV("Total Amount Due", Str(amt)), CM,
    KV("Bank Name", Str(bank)), RB>>

\* Streams the model answers a due-email prompt with, as the chunks'
\* delta.content; <<>> is a chunk without content.
DueOutputs ==
  {<< <<LB, KV("Due Date", Str(D1))>>, <<>>,
      <<CM, KV("Total Amount Due", Str(A1234c)), CM,
        KV("Bank Name", Str(BankPadded)), RB, WS, MARK, TXT>> >>,
   << <<WS>> \o GoodObject(D1, A1234, BankX) >>,
   << <<LB, KV("Total Amount Due", Str(A1234p01)), CM,
        KV("Bank Name", Str(BankX)), RB>> >>,
   << <<Scalar(Null)>> >>,
   << <<Scalar(Num(P1234))>> >>,
   << <<TXT>> \o GoodObject(D1, A1234p01, BankX) >>,
   << <<LB, KV("Due Date", Str(D2)), CM, KV("Total Amount Due", Str(A1)),
        RB>> >>}

\* Streams the model answers a payment-success prompt with.
SuccessOutputs ==
  {<< <<LB, KV("Total Amount Due", Str(P1234)), RB>> >>,
   << <<LB, KV("Total Amount Due", Str(A1234c))>>, <<RB, MARK, TXT>> >>,
   << <<TXT>> >>}

(***************************************************************************)
(* The engine: initializeEngine from the listeners, and waitForEngine.     *)
(***************************************************************************)
\* A listener (onInstalled or onStartup in the worker, DOMContentLoaded in
\* the popup) calls initializeEngine while no engine is set: CreateMLCEngine
\* is called.
InitializeEngine(c) ==
  /\ UNCHANGED scanVars
  /\ UNCHANGED request
  /\ ~engine[c]
  /\ loading[c] < MaxLoads
  /\ loading' = [loading EXCEPT ![c] = @ + 1]
  /\ UNCHANGED <<engine, chatHistory, kind, pc, attempts, inits, stream, cur>>
  /\ UNCHANGED storeVars

\* CreateMLCEngine resolves: engine = the loaded engine.
LoadResolved(c) ==
  /\ UNCHANGED scanVars
  /\ UNCHANGED request
  /\ loading[c] > 0
  /\ loading' = [loading EXCEPT ![c] = @ - 1]
  /\ engine' = [engine EXCEPT ![c] = TRUE]
  /\ UNCHANGED <<chatHistory, kind, pc, attempts, inits, stream, cur>>
  /\ UNCHANGED storeVars

\* CreateMLCEngine rejects: the catch logs.
LoadRejected(c) ==
  /\ UNCHANGED scanVars
  /\ UNCHANGED request
  /\ loading[c] > 0
  /\ loading' = [loading EXCEPT ![c] = @ - 1]
  /\ UNCHANGED <<engine, chatHistory, kind, pc, attempts, inits,
                 stream, cur>>
  /\ UNCHANGED storeVars

\* A loop that tests the counter alone.
KeepWaitingToTheEnd(ready, n) == n < MaxAttempts

\* while (!engine && attempts < 10)
KeepWaiting(ready, n) == ~ready /\ n < MaxAttempts

(***************************************************************************)
(* summarizeEmail (worker and popup) and handlePaymentSuccess (worker).    *)
(***************************************************************************)
\* chatHistory.length = 0, chatHistory.push(prompt), and the call of
\* engine.chat.completions.create.
Prompt(r, c) ==
  /\ chatHistory' = [chatHistory EXCEPT ![c] = <<r>>]
  /\ request' = [request EXCEPT ![r] = chatHistory'[c]]
  /\ pc' = [pc EXCEPT ![r] = "creating"]

\* if (!engine) return, after waitForEngine or without it.
ResumeUnguarded(r, c) == Prompt(r, c)

\* The line after the wait: the run goes on with the engine set and returns
\* without it.
Resume(r, c) ==
  IF engine[c] THEN Prompt(r, c)
  ELSE /\ pc' = [pc EXCEPT ![r] = "failed_engine"]
       /\ chatHistory' = chatHistory
       /\ request' = request

\* The function from its first line to its first await: with the engine set,
\* up to the completion request; without, into waitForEngine and its first
\* sleep.
Enter(r, c) ==
  IF engine[c] THEN Prompt(r, c)
  ELSE /\ pc' = [pc EXCEPT ![r] = "wait_sleep"]
       /\ chatHistory' = chatHistory
       /\ request' = [request EXCEPT ![r] = <<>>]

ResetChains(r) ==
  /\ savePc' = [savePc EXCEPT ![r] = "none"]
  /\ saveArg' = [saveArg EXCEPT ![r] = NoData]
  /\ updPc' = [updPc EXCEPT ![r] = "none"]
  /\ updArg' = [updArg EXCEPT ![r] = Undefined]
  /\ notifPc' = [notifPc EXCEPT ![r] = "none"]

\* The due-email runs that have not reached their insert.
DueInFlight ==
  Cardinality({r \in Runs : kind[r] = "due" /\ ~PcOver(pc[r])})

\* The model stops triggering due-email runs when the store could exceed
\* MaxStore.
RoomForRun == Len(store) + SavesInFlight + DueInFlight < MaxStore

\* summarizeEmail is called in context c: its statements up to the first
\* await that does not settle at once.
SummarizeEmail(r, c) ==
  /\ RoomForRun
  /\ TakeRun(r, "due", c)
  /\ ResetChains(r)
  /\ Enter(r, c)
  /\ UNCHANGED <<store, clock, openq, txq, saveNew, updPuts, engine, loading>>

\* handlePaymentSuccess is called: its statements up to the first await that
\* does not settle at once.
HandlePaymentSuccess(r) ==
  /\ TakeRun(r, "success", "bg")
  /\ ResetChains(r)
  /\ Enter(r, "bg")
  /\ UNCHANGED <<store, clock, openq, txq, saveNew, updPuts, engine, loading>>

\* checkEmails, or the popup's message listener, calls summarizeEmail, for
\* any email.
StartDue(r, c) == SummarizeEmail(r, c) /\ UNCHANGED scanVars

\* checkPaymentSuccessEmails calls handlePaymentSuccess, for any email.
StartSuccess(r) == HandlePaymentSuccess(r) /\ UNCHANGED scanVars

\* waitForEngine after a sleep: attempts++, the loop test, and what follows
\* the loop: the return to the caller with the engine set, where the local
\* attempts is gone, or the call of initializeEngine, which reaches
\* CreateMLCEngine.
WaitTick(r) ==
  /\ UNCHANGED scanVars
  /\ pc[r] = "wait_sleep"
  /\ IF KeepWaiting(engine[ctx[r]], attempts[r] + 1)
       THEN /\ attempts' = [attempts EXCEPT ![r] = @ + 1]
            /\ UNCHANGED <<pc, chatHistory, inits, request>>
       ELSE IF engine[ctx[r]]
         THEN /\ Prompt(r, ctx[r])
              /\ attempts' = [attempts EXCEPT ![r] = 0]
              /\ inits' = inits
         ELSE /\ pc' = [pc EXCEPT ![r] = "wait_init"]
              /\ attempts' = [attempts EXCEPT ![r] = @ + 1]
              /\ inits' = [inits EXCEPT ![r] = @ + 1]
              /\ UNCHANGED <<chatHistory, request>>
  /\ UNCHANGED <<engine, loading, kind, stream, cur>>
  /\ UNCHANGED storeVars

\* CreateMLCEngine of waitForEngine's initializeEngine resolves.
WaitInitResolved(r) ==
  /\ UNCHANGED scanVars
  /\ pc[r] = "wait_init"
  /\ engine' = [engine EXCEPT ![ctx[r]] = TRUE]
  /\ Prompt(r, ctx[r])
  /\ attempts' = [attempts EXCEPT ![r] = 0]
  /\ UNCHANGED <<loading, kind, inits, stream, cur>>
  /\ UNCHANGED storeVars

\* It rejects: the catch logs; the caller goes on when the engine was set
\* meanwhile and returns when not.
WaitInitRejected(r) ==
  /\ UNCHANGED scanVars
  /\ pc[r] = "wait_init"
  /\ Resume(r, ctx[r])
  /\ attempts' = [attempts EXCEPT ![r] = 0]
  /\ UNCHANGED <<engine, loading, kind, inits, stream, cur>>
  /\ UNCHANGED storeVars

\* An outer catch that also notifies.
AbortAndNotify(r, label) ==
  /\ pc' = [pc EXCEPT ![r] = label]
  /\ notifPc' = [notifPc EXCEPT ![r] = "open"]
  /\ openq' = [openq EXCEPT ![ctx[r]] = Append(@, OpenReq(r, "notif"))]
  /\ UNCHANGED <<savePc, saveArg, updPc, updArg>>

\* The outer catch of the run: the error is logged.
Abort(r, label) ==
  /\ pc' = [pc EXCEPT ![r] = label]
  /\ UNCHANGED <<savePc, saveArg, updPc, updArg, notifPc, openq>>

\* engine.chat.completions.create resolves with a stream.
CreateResolved(r, out) ==
  /\ UNCHANGED scanVars
  /\ UNCHANGED request
  /\ pc[r] = "creating"
  /\ pc' = [pc EXCEPT ![r] = "streaming"]
  /\ stream' = [stream EXCEPT ![r] = out]
  /\ UNCHANGED <<engine, loading, chatHistory, kind, attempts, inits,
                 cur>>
  /\ UNCHANGED storeVars

\* It throws.
CreateThrew(r) ==
  /\ UNCHANGED scanVars
  /\ UNCHANGED request
  /\ pc[r] = "creating"
  /\ Abort(r, "failed_create")
  /\ UNCHANGED <<engine, loading, chatHistory, kind, attempts, inits,
                 stream, cur>>
  /\ UNCHANGED <<store, clock, txq, ctx, saveNew, updPuts, notes, uncaught>>

\* One round of for await: curMessage += curDelta when the chunk has content.
StreamChunk(r) ==
  /\ UNCHANGED scanVars
  /\ UNCHANGED request
  /\ pc[r] = "streaming"
  /\ stream[r] # <<>>
  /\ cur' = [cur EXCEPT ![r] = IF Head(stream[r]) # <<>>
                                 THEN @ \o Head(stream[r]) ELSE @]
  /\ stream' = [stream EXCEPT ![r] = Tail(@)]
  /\ UNCHANGED <<engine, loading, chatHistory, kind, pc, attempts,
                 inits>>
  /\ UNCHANGED storeVars

\* The stream throws: the iterator and the local curMessage are gone.
StreamThrew(r) ==
  /\ UNCHANGED scanVars
  /\ UNCHANGED request
  /\ pc[r] = "streaming"
  /\ Abort(r, "failed_stream")
  /\ stream' = [stream EXCEPT ![r] = <<>>]
  /\ cur' = [cur EXCEPT ![r] = <<>>]
  /\ UNCHANGED <<engine, loading, chatHistory, kind, attempts, inits>>
  /\ UNCHANGED <<store, clock, txq, ctx, saveNew, updPuts, notes, uncaught>>

\* A run that notifies before it saves.
DueCallsNotifyFirst(r) == <<OpenReq(r, "notif"), OpenReq(r, "save")>>

\* The indexedDB.open requests of a due-email run after its parse, in the
\* order made: savePaymentSummaryToIndexedDB, then sendNotifications.
DueCalls(r) == <<OpenReq(r, "save"), OpenReq(r, "notif")>>

\* A loop that may be left at any round.
StreamLeftEarly(r) == TRUE

\* for await leaves the loop when the iterator reports done.
StreamDone(r) == stream[r] = <<>>

\* The stream is done: split, trim, JSON.parse, then
\* savePaymentSummaryToIndexedDB and sendNotifications / notifyFromIndexedDB
\* in a due-email run, updateMatchingRecord in a payment-success run.  The
\* local curMessage is not read again.
StreamEnded(r) ==
  /\ UNCHANGED scanVars
  /\ UNCHANGED request
  /\ pc[r] = "streaming"
  /\ StreamDone(r)
  /\ LET parsed == JSONParse(JsonResponse(cur[r]))
         c      == ctx[r]
     IN  IF ~parsed.ok
           THEN /\ pc' = [pc EXCEPT ![r] = "failed_parse"]
                /\ UNCHANGED <<savePc, saveArg, updPc, updArg, notifPc, openq>>
         ELSE IF PropertyThrows(parsed.value)
           THEN Abort(r, "failed_exception")
         ELSE IF kind[r] = "due"
           THEN /\ pc' = [pc EXCEPT ![r] = "done"]
                /\ saveArg' = [saveArg EXCEPT ![r] =
                     PaymentData(Get(parsed.value, "Due Date"),
                                 Get(parsed.value, "Total Amount Due"),
                                 Get(parsed.value, "Bank Name"))]
                /\ savePc' = [savePc EXCEPT ![r] = "open"]
                /\ notifPc' = [notifPc EXCEPT ![r] = "open"]
                /\ openq' = [openq EXCEPT ![c] = @ \o DueCalls(r)]
                /\ UNCHANGED <<updPc, updArg>>
           ELSE /\ pc' = [pc EXCEPT ![r] = "updating"]
                /\ updArg' = [updArg EXCEPT ![r] =
                     Get(parsed.value, "Total Amount Due")]
                /\ updPc' = [updPc EXCEPT ![r] = "open"]
                /\ openq' = [openq EXCEPT ![c] =
                     Append(@, OpenReq(r, "upd"))]
                /\ UNCHANGED <<savePc, saveArg, notifPc>>
  /\ cur' = [cur EXCEPT ![r] = <<>>]
  /\ UNCHANGED <<engine, loading, chatHistory, kind, attempts, inits, stream>>
  /\ UNCHANGED <<store, clock, txq, ctx, saveNew, updPuts, notes, uncaught>>

\* await updateMatchingRecord(...) returns once the database was opened and
\* the requests were made, or the open failed.
UpdateReturned(r) ==
  /\ UNCHANGED scanVars
  /\ UNCHANGED request
  /\ pc[r] = "updating"
  /\ updPc[r] # "open"
  /\ pc' = [pc EXCEPT ![r] = "done"]
  /\ UNCHANGED <<engine, loading, chatHistory, kind, attempts, inits,
                 stream, cur>>
  /\ UNCHANGED storeVars

(***************************************************************************)
(* The store under direct calls from the worker with reconciliation and    *)
(* the popup, in any interleaving.                                         *)
(***************************************************************************)
StoreNext ==
  \/ \E r \in Runs, c \in {"bg", "popup"}, pd \in GoodInputs :
       RoomToSave /\ CallSave(r, c, pd)
  \/ \E r \in Runs, amount \in PaidInputs : CallUpdate(r, amount)
  \/ \E r \in Runs : CallNotify(r, "bg")
  \/ \E r \in Runs :
       \/ SaveOpenFailed(r) \/ SaveOpened(r) \/ SaveChecked(r)
       \/ SaveCheckFailed(r) \/ SaveCommitted(r)
       \/ UpdOpenFailed(r) \/ UpdOpened(r) \/ UpdScanned(r)
       \/ UpdScanFailed(r) \/ UpdCommitted(r)
       \/ NotifOpenFailed(r) \/ NotifOpened(r) \/ NotifRead(r)
       \/ NotifReadFailed(r)

SpecStore == Init /\ [][StoreNext]_vars

(***************************************************************************)
(* The store under inserts from the worker with reconciliation and the     *)
(* popup, each begun after the one before has come to its end.             *)
(***************************************************************************)
Quiet == \A r \in Runs : Unused(r)

SeqNext ==
  \/ \E r \in Runs, c \in {"bg", "popup"}, pd \in SaveInputs :
       Quiet /\ RoomToSave /\ CallSave(r, c, pd)
  \/ \E r \in Runs :
       \/ SaveOpenFailed(r) \/ SaveOpened(r) \/ SaveChecked(r)
       \/ SaveCheckFailed(r) \/ SaveCommitted(r)

SpecSeq == Init /\ [][SeqNext]_vars

\* The dedup key of a stored summary: its amount with the commas stripped,
\* and its due date.
KeyOf(summary) ==
  <<StripCommas(ToText(summary.totalAmountDue)), summary.DueDate>>

(***************************************************************************)
(* C1: under inserts of the worker with reconciliation and of the popup    *)
(* that each end before the next begins, starting from the empty store, no *)
(* two stored records have the same pair (amount with commas stripped, due *)
(* date).                                                                  *)
(***************************************************************************)
C1_NoDuplicateKey ==
  \A i, j \in 1..Len(store) : i # j => KeyOf(store[i]) # KeyOf(store[j])

\* A popup insert written with a thousands separator was refused as the
\* duplicate of the record already stored.
C1_Witness ==
  \E r \in Runs :
    /\ savePc[r] = "dup" /\ ctx[r] = "popup"
    /\ saveArg[r].amt = Str(A1234c)
    /\ Len(store) = 1 /\ KeyOf(store[1]) = <<A1234, Str(D1)>>

(***************************************************************************)
(* The store under the earlier worker (src/src/background.ts) and the      *)
(* popup.                                                                  *)
(***************************************************************************)
LegacyNext ==
  \/ \E r \in Runs, pd \in GoodInputs \cup PartialInputs :
       RoomToSave /\ CallSave(r, "legacy", pd)
  \/ \E r \in Runs, pd \in GoodInputs : RoomToSave /\ CallSave(r, "popup", pd)
  \/ \E r \in Runs : CallNotify(r, "legacy")
  \/ \E r \in Runs :
       \/ SaveOpenFailed(r) \/ LegacySaveOpened(r) \/ SaveOpened(r)
       \/ SaveChecked(r) \/ SaveCheckFailed(r) \/ SaveCommitted(r)
       \/ NotifOpenFailed(r) \/ NotifOpened(r) \/ NotifRead(r)
       \/ NotifReadFailed(r)

SpecLegacy == Init /\ [][LegacyNext]_vars

\* The dedup key of the record an insert is called with.
KeyOfData(pd) == <<StripCommas(ToText(pd.amt)), pd.due>>

HasKey(st, key) == \E i \in 1..Len(st) : KeyOf(st[i]) = key

(***************************************************************************)
(* C2: the worker of src/src/background.ts adds a record only if no stored *)
(* record has the same (comma-stripped amount, due date); an insert whose  *)
(* pair is already stored leaves the store unchanged.                      *)
(***************************************************************************)
C2_InsertOnlyIfAbsent ==
  [][\A r \in Runs :
       (ctx[r] = "legacy" /\ savePc[r] = "active" /\ savePc'[r] = "done"
          /\ HasKey(store, KeyOfData(saveArg[r])))
       => store' = store]_vars

(***************************************************************************)
(* C3 (as amended): when the popup and the worker insert the same logical  *)
(* record concurrently, the duplicate check and the add of each insert run *)
(* inside one readwrite transaction on "summaries", and such transactions  *)
(* run one after the other: no two inserts are ever both between their     *)
(* check and their commit, and no store state holds two records with the   *)
(* same (comma-stripped amount, due date).                                 *)
(***************************************************************************)
C3_ChecksSerialized ==
  /\ \A a, b \in Runs :
       a # b => ~(savePc[a] = "active" /\ savePc[b] = "active")
  /\ \A i, j \in 1..Len(store) : i # j => KeyOf(store[i]) # KeyOf(store[j])

\* The worker's insert has passed its check and not yet committed, while the
\* popup's insert of the same record waits with its transaction created.
C3_Witness ==
  \E a, b \in Runs :
    /\ ctx[a] = "bg" /\ ctx[b] = "popup"
    /\ savePc[a] = "active" /\ savePc[b] = "queued"
    /\ KeyOfData(saveArg[a]) = KeyOfData(saveArg[b])

\* C3 as stated: once one of two concurrent inserts of the same logical
\* record has passed its duplicate check and has not committed, the other can
\* run its duplicate check too.
C3_BothPassCheck ==
  \A a, b \in Runs :
    (/\ a # b
     /\ ctx[a] # ctx[b]
     /\ savePc[a] = "active" /\ savePc[b] = "queued"
     /\ KeyOfData(saveArg[a]) = KeyOfData(saveArg[b]))
    => ENABLED SaveChecked(b)

(***************************************************************************)
(* C4: in every interleaving of inserts, reconciliations and notification  *)
(* sweeps, the paymentStatus of a stored record changes only in the commit *)
(* of updateMatchingRecord and only from "unpaid" to "paid"; no record is  *)
(* removed, so a paid record is never unpaid again.                        *)
(***************************************************************************)
C4_StatusOnlyToPaid ==
  [][/\ Len(store') >= Len(store)
     /\ \A i \in 1..Len(store) :
          store'[i].paymentStatus # store[i].paymentStatus
          => /\ store[i].paymentStatus = "unpaid"
             /\ store'[i].paymentStatus = "paid"
             /\ \E r \in Runs : updPc[r] = "active" /\ updPc'[r] = "done"]_vars

\* A reconciliation has marked a record paid while an insert is in flight.
C4_Witness ==
  \E r, q \in Runs :
    /\ updPc[r] = "done"
    /\ savePc[q] \in {"queued", "active"}
    /\ \E i \in 1..Len(store) : store[i].paymentStatus = "paid"

(***************************************************************************)
(* C5: updateMatchingRecord(p) marks paid exactly the unpaid records whose *)
(* amount equals p when both are formatted to two fraction digits, all of  *)
(* them whatever their due date or bank, and changes no other record: with *)
(* records inserted with "1,234.00" and "1234.01", the amount "1234" makes *)
(* the first paid and leaves the second as it is.                          *)
(***************************************************************************)
C5_ExactlyMatchingPaid ==
  [][\A r \in Runs :
       (updPc[r] \in {"queued", "active"} /\ updPc'[r] = "done")
       => /\ Len(store') = Len(store)
          /\ \A i \in 1..Len(store) :
               /\ store'[i].paymentStatus = "paid"
                  <=> \/ store[i].paymentStatus = "paid"
                      \/ FormatAmount(ToText(store[i].totalAmountDue))
                           = FormatAmount(ToText(updArg[r]))
               /\ updArg[r] = Str(P1234)
                  => /\ store[i].totalAmountDue = Str(A1234)
                        => store'[i].paymentStatus = "paid"
                     /\ store[i].totalAmountDue = Str(A1234p01)
                        => store'[i] = store[i]]_vars

\* After updateMatchingRecord("1234") the record inserted with "1,234.00" is
\* paid and the record inserted with "1234.01" is unpaid.
C5_Witness ==
  \E r \in Runs :
    /\ updPc[r] = "done" /\ updArg[r] = Str(P1234)
    /\ Len(store) = 2
    /\ store[1].totalAmountDue = Str(A1234)
    /\ store[1].paymentStatus = "paid"
    /\ store[2].totalAmountDue = Str(A1234p01)
    /\ store[2].paymentStatus = "unpaid"

(***************************************************************************)
(* C6: in updateMatchingRecord the paid amount is normalized like the      *)
(* stored amount: the paid amount "1,234.00" marks the unpaid records      *)
(* whose amount is "1234.00" paid and leaves a record of amount "1.00" as  *)
(* it is.                                                                  *)
(***************************************************************************)
C6_PaidAmountNormalized ==
  [][\A r \in Runs :
       (updPc[r] \in {"queued", "active"} /\ updPc'[r] = "done"
          /\ updArg[r] = Str(A1234c))
       => \A i \in 1..Len(store) :
            /\ store[i].totalAmountDue = Str(A1234)
               => store'[i].paymentStatus = "paid"
            /\ store[i].totalAmountDue = Str(A1)
               => store'[i] = store[i]]_vars

(***************************************************************************)
(* MaxRuns runs of the worker with reconciliation and of the popup:        *)
(* triggers, engine, completion stream, and the store with every request   *)
(* succeeding.                                                             *)
(***************************************************************************)
PipeNext ==
  \/ \E r \in Runs, c \in {"bg", "popup"} : kind[r] = "none" /\ StartDue(r, c)
  \/ \E r \in Runs : kind[r] = "none" /\ StartSuccess(r)
  \/ \E c \in {"bg", "popup"} :
       InitializeEngine(c) \/ LoadResolved(c) \/ LoadRejected(c)
  \/ \E r \in Runs :
       \/ WaitTick(r) \/ WaitInitResolved(r) \/ WaitInitRejected(r)
       \/ CreateThrew(r) \/ StreamChunk(r) \/ StreamThrew(r)
       \/ StreamEnded(r) \/ UpdateReturned(r)
  \/ \E r \in Runs :
       \E out \in IF kind[r] = "due" THEN DueOutputs ELSE SuccessOutputs :
         CreateResolved(r, out)
  \/ \E r \in Runs :
       \/ SaveOpened(r) \/ SaveChecked(r) \/ SaveCommitted(r)
       \/ UpdOpened(r) \/ UpdScanned(r) \/ UpdCommitted(r)
       \/ NotifOpened(r) \/ NotifRead(r)

SpecPipe == Init /\ [][PipeNext]_vars

(***************************************************************************)
(* The runs up to their completion request: triggers, engine loads and     *)
(* waitForEngine.  Every timer fires and every CreateMLCEngine call of     *)
(* waitForEngine settles.                                                  *)
(***************************************************************************)
WaitNext ==
  \/ \E r \in Runs, c \in {"bg", "popup"} : StartDue(r, c)
  \/ \E r \in Runs : StartSuccess(r)
  \/ \E c \in {"bg", "popup"} :
       InitializeEngine(c) \/ LoadResolved(c) \/ LoadRejected(c)
  \/ \E r \in Runs :
       WaitTick(r) \/ WaitInitResolved(r) \/ WaitInitRejected(r)

SpecWait ==
  /\ Init
  /\ [][WaitNext]_vars
  /\ \A r \in Runs :
       /\ WF_vars(WaitTick(r))
       /\ WF_vars(WaitInitResolved(r) \/ WaitInitRejected(r))

\* Run r has started none of its store functions and created no notification.
Untouched(r) ==
  /\ savePc[r] = "none" /\ updPc[r] = "none" /\ notifPc[r] = "none"
  /\ notes[r] = <<>>

\* This step starts no store function of run r, and changes neither the store
\* nor the requests on their way to it.
NothingStarted(r) ==
  /\ savePc'[r] = "none" /\ updPc'[r] = "none" /\ notifPc'[r] = "none"
  /\ notes'[r] = <<>>
  /\ store' = store /\ openq' = openq /\ txq' = txq

(***************************************************************************)
(* C7: when the stream has ended and the accumulated text, cut at the      *)
(* marker and trimmed, does not parse as JSON, the run ends in that step:  *)
(* it starts no insert, no update and no notification step, then or later, *)
(* in summarizeEmail of the worker and of the popup and in                 *)
(* handlePaymentSuccess.                                                   *)
(***************************************************************************)
C7_ParseFailureEndsRun ==
  /\ [][\A r \in Runs :
          (/\ pc[r] = "streaming" /\ stream[r] = <<>>
           /\ pc'[r] \notin {"streaming", "failed_stream"}
           /\ ~WellFormed(JsonResponse(cur[r])))
          => pc'[r] = "failed_parse" /\ NothingStarted(r)]_vars
  /\ [](\A r \in Runs : pc[r] = "failed_parse" => RunOver(r) /\ Untouched(r))

\* A due-email run of the popup and a payment-success run of the worker have
\* both ended at an answer that does not parse.
C7_Witness ==
  \E r, q \in Runs :
    /\ kind[r] = "due" /\ ctx[r] = "popup" /\ pc[r] = "failed_parse"
    /\ kind[q] = "success" /\ pc[q] = "failed_parse"

(***************************************************************************)
(* C8: an answer that parses as JSON but is no object with the fields      *)
(* "Due Date", "Total Amount Due" and "Bank Name" is rejected: an insert   *)
(* of a due-email run that has stored its record was given all three       *)
(* fields as strings.                                                      *)
(***************************************************************************)
C8_MalformedRejected ==
  \A r \in Runs :
    (kind[r] = "due" /\ savePc[r] = "done")
    => /\ IsString(saveArg[r].due)
       /\ IsString(saveArg[r].amt)
       /\ IsString(saveArg[r].bank)

(***************************************************************************)
(* C9: when engine.chat.completions.create throws, or the stream throws    *)
(* while it is consumed, the run is over in that step: it starts no        *)
(* insert, no update and no notification step, the store is unchanged, no  *)
(* exception escapes, and the worker still takes the next trigger.         *)
(***************************************************************************)
C9_CompletionFailureAborts ==
  /\ [][\A r \in Runs :
          (/\ pc[r] \in {"creating", "streaming"}
           /\ pc'[r] \in {"failed_create", "failed_stream"})
          => NothingStarted(r) /\ uncaught' = uncaught]_vars
  /\ [](\A r \in Runs :
          pc[r] \in {"failed_create", "failed_stream"}
          => /\ RunOver(r) /\ Untouched(r)
             /\ r \notin uncaught
             /\ ENABLED (\E q \in Runs : StartSuccess(q)))

\* One run of the worker ended at a stream that threw and the other at a
\* completion request that threw; nothing is stored.
C9_Witness ==
  \E r, q \in Runs :
    /\ ctx[r] = "bg" /\ pc[r] = "failed_stream"
    /\ ctx[q] = "bg" /\ pc[q] = "failed_create"
    /\ store = <<>>

(***************************************************************************)
(* C10: waitForEngine terminates.  It sleeps at most MaxAttempts times,    *)
(* testing the engine after each sleep; the first test that finds the      *)
(* engine set ends the wait without a call of initializeEngine; the call   *)
(* is made at most once, and only by the test after the last sleep when    *)
(* the engine is still not set; the caller goes on only with the engine    *)
(* set.                                                                    *)
(***************************************************************************)
C10_WaitTerminates ==
  /\ [](\A r \in Runs :
          /\ attempts[r] <= MaxAttempts /\ inits[r] <= 1
          /\ pc[r] = "wait_sleep" => attempts[r] < MaxAttempts /\ inits[r] = 0
          /\ pc[r] = "wait_init" => attempts[r] = MaxAttempts /\ inits[r] = 1
          /\ pc[r] = "creating" => engine[ctx[r]])
  /\ [][\A r \in Runs :
          (pc[r] = "wait_sleep"
             /\ <<pc[r], attempts[r]>>' # <<pc[r], attempts[r]>>)
          => IF engine[ctx[r]]
               THEN pc'[r] = "creating" /\ inits'[r] = 0
             ELSE IF attempts[r] + 1 < MaxAttempts
               THEN /\ pc'[r] = "wait_sleep"
                    /\ attempts'[r] = attempts[r] + 1
                    /\ inits'[r] = 0
             ELSE pc'[r] = "wait_init" /\ inits'[r] = 1]_vars
  /\ \A r \in Runs :
       (pc[r] \in {"wait_sleep", "wait_init"})
         ~> (pc[r] \in {"creating", "failed_engine"})

\* One run has returned from waitForEngine without an engine, after its one
\* call of initializeEngine; another is in its last sleep.
C10_Witness ==
  \E r, q \in Runs :
    /\ pc[r] = "failed_engine" /\ inits[r] = 1
    /\ pc[q] = "wait_sleep" /\ attempts[q] = MaxAttempts - 1

(***************************************************************************)
(* C11: when initializeEngine of waitForEngine has failed and the engine   *)
(* is still not set, summarizeEmail and handlePaymentSuccess return: the   *)
(* run makes no completion request, starts no insert, update or            *)
(* notification step, and is over.                                         *)
(***************************************************************************)
C11_NoEngineNoRun ==
  /\ [][\A r \in Runs :
          (pc[r] = "wait_init" /\ pc'[r] # "wait_init"
             /\ ~engine'[ctx[r]])
          => /\ pc'[r] = "failed_engine"
             /\ request'[r] = <<>> /\ chatHistory' = chatHistory
             /\ NothingStarted(r)]_vars
  /\ [](\A r \in Runs :
          pc[r] = "failed_engine"
          => /\ inits[r] = 1 /\ request[r] = <<>>
             /\ RunOver(r) /\ Untouched(r))

\* A due-email run of the popup and a payment-success run of the worker have
\* both returned for want of an engine.
C11_Witness ==
  \E r, q \in Runs :
    /\ kind[r] = "due" /\ ctx[r] = "popup" /\ pc[r] = "failed_engine"
    /\ kind[q] = "success" /\ pc[q] = "failed_engine"

\* The moves of a run through summarizeEmail or handlePaymentSuccess.
PcOrder ==
  {<<"idle", "wait_sleep">>, <<"idle", "creating">>,
   <<"wait_sleep", "wait_init">>, <<"wait_sleep", "creating">>,
   <<"wait_init", "creating">>, <<"wait_init", "failed_engine">>,
   <<"creating", "streaming">>, <<"creating", "failed_create">>,
   <<"streaming", "failed_stream">>, <<"streaming", "failed_parse">>,
   <<"streaming", "failed_exception">>, <<"streaming", "done">>,
   <<"streaming", "updating">>, <<"updating", "done">>}

PcFailed ==
  {"failed_engine", "failed_create", "failed_stream", "failed_parse",
   "failed_exception"}

(***************************************************************************)
(* C12: a run moves only forward through engine wait, prompt, completion   *)
(* request, stream, parse, store and notification.  It makes one           *)
(* completion request; its insert is started only by the step that parses  *)
(* the text of an ended stream; a record is added only by the one commit   *)
(* of a run whose parse succeeded; the notification of a due-email run is  *)
(* created only when its insert has come to its end; a failed run takes no *)
(* further step.                                                           *)
(***************************************************************************)
C12_StepsInOrder ==
  /\ [][\A r \in Runs :
          /\ pc'[r] # pc[r] => <<pc[r], pc'[r]>> \in PcOrder
          /\ request'[r] # request[r]
             => request[r] = <<>> /\ pc'[r] = "creating"
          /\ (savePc'[r] # savePc[r] /\ savePc[r] = "none")
             => /\ pc[r] = "streaming" /\ stream[r] = <<>>
                /\ WellFormed(JsonResponse(cur[r]))
                /\ pc'[r] = "done"
          /\ savePc[r] = "done" => savePc'[r] = "done"
          /\ (notifPc'[r] = "done" /\ notifPc[r] # "done" /\ kind[r] = "due")
             => ChainOver(savePc[r]) /\ savePc[r] # "none"
          /\ pc[r] \in PcFailed => pc'[r] = pc[r] /\ Untouched(r)]_vars
  /\ [][Len(store') > Len(store)
        => /\ Len(store') = Len(store) + 1
           /\ \E r \in Runs :
                /\ savePc[r] = "active" /\ savePc'[r] = "done"
                /\ pc[r] = "done" /\ request[r] # <<>>]_vars

\* One due-email run has gone through every step, its record stored and its
\* notification created; the other has failed at the parse.
C12_Witness ==
  \E r, q \in Runs :
    /\ kind[r] = "due" /\ pc[r] = "done"
    /\ savePc[r] = "done" /\ notifPc[r] = "done" /\ notes[r] # <<>>
    /\ pc[q] = "failed_parse"

C14_InsertedRecordNormalized ==
  /\ \A i \in 1..Len(store) :
       /\ IsString(store[i].totalAmountDue)
       /\ StripCommas(store[i].totalAmountDue.s) = store[i].totalAmountDue.s
       /\ IsString(store[i].BankName)
       /\ TrimText(store[i].BankName.s) = store[i].BankName.s
       /\ \A j \in 1..Len(store) : i # j => store[i].id # store[j].id
  /\ \A r \in Runs :
       saveNew[r] # <<>> => saveNew[r][1].paymentStatus = "unpaid"

MaxMsgs == 2

UpperCase ==
  <<"A", "B", "C", "D", "E", "F", "G", "H", "I", "J", "K", "L", "M", "N",
    "O", "P", "Q", "R", "S", "T", "U", "V", "W", "X", "Y", "Z">>

LowerCase ==
  <<"a", "b", "c", "d", "e", "f", "g", "h", "i", "j", "k", "l", "m", "n",
    "o", "p", "q", "r", "s", "t", "u", "v", "w", "x", "y", "z">>

\* String.prototype.toLowerCase().
ToLowerCase(s) ==
  [i \in 1..Len(s) |->
     IF \E p \in 1..26 : UpperCase[p] = s[i]
     THEN LowerCase[CHOOSE p \in 1..26 : UpperCase[p] = s[i]]
     ELSE s[i]]

\* String.prototype.includes(t).
Includes(s, t) ==
  \E i \in 0..(Len(s) - Len(t)) : SubSeq(s, i + 1, i + Len(t)) = t

\* const keywords of checkEmails.
keywords ==
  <<
    <<"D", "u", "e", " ", "D", "a", "t", "e">>,
    <<"A", "m", "o", "u", "n", "t">>,
    <<"C", "r", "e", "d", "i", "t", " ", "C", "a", "r", "d">>,
    <<"S", "t", "a", "t", "e", "m", "e", "n", "t">>>>

\* const successKeywords of checkPaymentSuccessEmails.
successKeywords ==
  <<
    <<"r", "e", "c", "e", "i", "v", "e", "d">>,
    <<"c", "r", "e", "d", "i", "t">>,
    <<"p", "a", "y", "m", "e", "n", "t">>>>

\* The keyword test of both loops: the subject, a space and the content, in
\* lower case, include every keyword in lower case.
ContainsAllKeywords(kws, subject, content) ==
  LET emailText == ToLowerCase(subject \o <<" ">> \o content)
  IN  \A n \in 1..Len(kws) : Includes(emailText, ToLowerCase(kws[n]))

\* What fetchEmailDetails returns for a message that could be fetched.
EmailDetails(subject, content) == [subject |-> subject, content |-> content]

\* The mailbox of the account: the message ids are the positions.
Mailbox ==
  <<EmailDetails(
     <<"C", "r", "e", "d", "i", "t", " ", "C", "a", "r", "d", " ", "S",
       "t", "a", "t", "e", "m", "e", "n", "t">>,
     <<"S", "u", "m", "m", "a", "r", "y", ":", "\n", " ", "T", "o", "t",
       "a", "l", " ", "A", "m", "o", "u", "n", "t", " ", "D", "u", "e",
       "\n", "1", ",", "2", "3", "4", ".", "0", "0", "\n", "\n", "P", "A",
       "Y", "M", "E", "N", "T", " ", "D", "U", "E", " ", "D", "A", "T",
       "E", " ", "\n", "0", "1", "-", "0", "5", "\n", "N", "o", "t", "e",
       ":", " ", "p", "a", "y", "m", "e", "n", "t", " ", "r", "e", "c",
       "e", "i", "v", "e", "d">>),
   EmailDetails(
     <<"A", "m", "o", "u", "n", "t", " ", "D", "u", "e">>,
     <<"D", "a", "t", "e", " ", "o", "f", " ", "c", "r", "e", "d", "i",
       "t", " ", "c", "a", "r", "d", " ", "s", "t", "a", "t", "e", "m",
       "e", "n", "t", "\n", "T", "o", "t", "a", "l", " ", "A", "m", "o",
       "u", "n", "t", " ", "D", "u", "e", "\n", "1", ".", "0", "0">>),
   EmailDetails(
     <<"R", "e", "c", "e", "i", "v", "e", "d">>,
     <<"p", "a", "y", "m", "e", "n", "t", " ", "c", "r", "e", "d", "i",
       "t">>)>>

\* The answers of the list request: up to MaxMsgs distinct messages of the
\* mailbox, in any order.
Inboxes ==
  {m \in UNION {[1..n -> 1..Len(Mailbox)] : n \in 0..MaxMsgs} :
     \A i, j \in 1..Len(m) : i # j => m[i] # m[j]}

KeywordsOf(k) == IF k = "due" THEN keywords ELSE successKeywords

\* The scan returns or reaches its catch: the loop index is gone.
ScanEnds(k, p) ==
  /\ scanPc' = [scanPc EXCEPT ![k] = p]
  /\ scanI' = [scanI EXCEPT ![k] = 0]

\* The email a scan handed on that is not validEmails[0].
LastValidEmail(valid) == valid[Len(valid)]

\* validEmails[0]: the email a scan hands on.
FirstValidEmail(valid) == valid[1]

\* summarizeEmail / handlePaymentSuccess is called, as run r, with the
\* content of message id.
Handed(k, r, id) ==
  /\ handed' = [handed EXCEPT ![k] = Append(@, id)]
  /\ mail' = [mail EXCEPT ![r] = id]

\* A forward that does not wait for the callback: the message is sent and
\* the background script summarizes as well.
AfterLoopForwardAndRun(k, valid) ==
  IF valid = <<>>
  THEN /\ ScanEnds(k, "returned")
       /\ UNCHANGED <<storeVars, pipeVars, handed, mail>>
  ELSE /\ ScanEnds(k, IF k = "due" /\ popupActive THEN "sent" ELSE "returned")
       /\ \E r \in Runs :
            /\ IF k = "due" THEN SummarizeEmail(r, "bg")
               ELSE HandlePaymentSuccess(r)
            /\ Handed(k, r, FirstValidEmail(valid))

\* What follows the loop when validEmails is valid: nothing when it is empty;
\* otherwise validEmails[0] goes to the popup by runtime.sendMessage when
\* popupActive is set in checkEmails, and to summarizeEmail /
\* handlePaymentSuccess of the background script when not.
AfterLoop(k, valid) ==
  IF valid = <<>>
  THEN /\ ScanEnds(k, "returned")
       /\ UNCHANGED <<storeVars, pipeVars, handed, mail>>
  ELSE IF k = "due" /\ popupActive
  THEN /\ ScanEnds(k, "sent")
       /\ UNCHANGED <<storeVars, pipeVars, handed, mail>>
  ELSE /\ ScanEnds(k, "returned")
       /\ \E r \in Runs :
            /\ IF k = "due" THEN SummarizeEmail(r, "bg")
               ELSE HandlePaymentSuccess(r)
            /\ Handed(k, r, FirstValidEmail(valid))

\* The loop over the messages m from index i on: the loop test, and the call
\* of fetchEmailDetails, which returns null without a request when userToken
\* is not set, as it then does for every message left.
LoopFrom(k, m, i, valid) ==
  /\ validEmails' = [validEmails EXCEPT ![k] = valid]
  /\ messages' = [messages EXCEPT ![k] = m]
  /\ IF i <= Len(m) /\ userToken
     THEN /\ scanPc' = [scanPc EXCEPT ![k] = "fetch"]
          /\ scanI' = [scanI EXCEPT ![k] = i]
          /\ UNCHANGED <<storeVars, pipeVars, handed, mail>>
     ELSE AfterLoop(k, valid)

\* checkEmails / checkPaymentSuccessEmails is called: getAuthToken(true).
CheckEmails(k) ==
  /\ scanPc[k] = "idle"
  /\ scanPc' = [scanPc EXCEPT ![k] = "token"]
  /\ messages' = [messages EXCEPT ![k] = <<>>]
  /\ scanI' = [scanI EXCEPT ![k] = 0]
  /\ validEmails' = [validEmails EXCEPT ![k] = <<>>]
  /\ fetched' = [fetched EXCEPT ![k] = <<>>]
  /\ failed' = [failed EXCEPT ![k] = "none"]
  /\ handed' = [handed EXCEPT ![k] = <<>>]

\* An alarm, onInstalled or onStartup calls a scan.
ScanTriggered(k) ==
  /\ UNCHANGED <<alarm, ports, handler, reconciled>>
  /\ CheckEmails(k)
  /\ UNCHANGED <<storeVars, pipeVars, userToken, popupActive, mail>>

\* onConnect of a port named "web_llm_service_worker": popupActive = true,
\* the handler is created or given the port, and checkEmails().
PortConnected(p) ==
  /\ UNCHANGED <<alarm, reconciled>>
  /\ p \notin ports
  /\ ports' = ports \cup {p}
  /\ popupActive' = TRUE
  /\ handler' = TRUE
  /\ IF scanPc["due"] = "idle" THEN CheckEmails("due")
     ELSE UNCHANGED <<scanPc, messages, scanI, validEmails, fetched, failed,
                      handed>>
  /\ UNCHANGED <<storeVars, pipeVars, userToken, mail>>

\* onDisconnect of a connected port: handler = undefined, popupActive =
\* false.
PortDisconnected(p) ==
  /\ UNCHANGED <<alarm, reconciled>>
  /\ p \in ports
  /\ ports' = ports \ {p}
  /\ handler' = FALSE
  /\ popupActive' = FALSE
  /\ UNCHANGED <<storeVars, pipeVars, userToken, scanPc, messages, scanI,
                 validEmails, fetched, failed, handed, mail>>

\* The popup opens and its port connects, no port being connected.
PopupConnected == ports = {} /\ PortConnected(1)

\* The port disconnects and the runs in flight are dropped.
PopupDisconnectedCancels ==
  /\ UNCHANGED <<alarm, reconciled>>
  /\ ports = {1}
  /\ ports' = {}
  /\ handler' = FALSE
  /\ popupActive' = FALSE
  /\ pc' = [r \in Runs |-> IF kind[r] # "none" /\ ~PcOver(pc[r])
                             THEN "cancelled" ELSE pc[r]]
  /\ UNCHANGED <<storeVars, engine, loading, chatHistory, kind, attempts,
                 inits, stream, cur, request, userToken, scanPc, messages,
                 scanI, validEmails, fetched, failed, handed, mail>>

\* The popup closes and its port, the only one connected, disconnects.
PopupDisconnected == ports = {1} /\ PortDisconnected(1)

\* getAuthToken settles, with a token or with null: userToken is assigned, a
\* null returns, a token goes on to getUserEmail.
TokenSettled(k, ok) ==
  /\ UNCHANGED <<alarm, ports, handler, reconciled>>
  /\ scanPc[k] = "token"
  /\ userToken' = ok
  /\ IF ok
     THEN /\ scanPc' = [scanPc EXCEPT ![k] = "userinfo"]
          /\ UNCHANGED <<scanI, failed>>
     ELSE /\ ScanEnds(k, "returned")
          /\ failed' = [failed EXCEPT ![k] = "token"]
  /\ UNCHANGED <<storeVars, pipeVars, popupActive, messages, validEmails,
                 fetched, handed, mail>>

\* getUserEmail settles, with an address or with null: null returns, an
\* address goes on to the list request.
UserSettled(k, ok) ==
  /\ UNCHANGED <<alarm, ports, handler, reconciled>>
  /\ scanPc[k] = "userinfo"
  /\ IF ok
     THEN /\ scanPc' = [scanPc EXCEPT ![k] = "list"]
          /\ UNCHANGED <<scanI, failed>>
     ELSE /\ ScanEnds(k, "returned")
          /\ failed' = [failed EXCEPT ![k] = "userinfo"]
  /\ UNCHANGED <<storeVars, pipeVars, userToken, popupActive, messages,
                 validEmails, fetched, handed, mail>>

\* The list request fails (rejected, not ok, or no JSON): the throw reaches
\* the catch of the scan.
ListFailed(k) ==
  /\ UNCHANGED <<alarm, ports, handler, reconciled>>
  /\ scanPc[k] = "list"
  /\ ScanEnds(k, "caught")
  /\ failed' = [failed EXCEPT ![k] = "list"]
  /\ UNCHANGED <<storeVars, pipeVars, userToken, popupActive, messages,
                 validEmails, fetched, handed, mail>>

\* The list request answers with the messages m: none ends the scan, some
\* start the loop.
ListSettled(k, m) ==
  /\ UNCHANGED <<alarm, ports, handler, reconciled>>
  /\ scanPc[k] = "list"
  /\ IF m = <<>>
     THEN /\ ScanEnds(k, "returned")
          /\ UNCHANGED <<storeVars, pipeVars, messages, validEmails, handed,
                         mail>>
     ELSE LoopFrom(k, m, 1, <<>>)
  /\ UNCHANGED <<userToken, popupActive, fetched, failed>>

\* The request of fetchEmailDetails fails (rejected, not ok, or no JSON):
\* its catch returns null and the loop continues with the next message.
FetchFailed(k) ==
  /\ UNCHANGED <<alarm, ports, handler, reconciled>>
  /\ scanPc[k] = "fetch"
  /\ failed' = [failed EXCEPT ![k] = "message"]
  /\ LoopFrom(k, messages[k], scanI[k] + 1, validEmails[k])
  /\ UNCHANGED <<userToken, popupActive, fetched>>

\* fetchEmailDetails returns the details of message i: the keyword test, the
\* push on validEmails, and the timer of one second.
FetchSettled(k) ==
  /\ UNCHANGED <<alarm, ports, handler, reconciled>>
  /\ scanPc[k] = "fetch"
  /\ LET id == messages[k][scanI[k]]
         d  == Mailbox[id]
     IN  /\ fetched' = [fetched EXCEPT ![k] = Append(@, id)]
         /\ validEmails' =
              [validEmails EXCEPT ![k] =
                 IF ContainsAllKeywords(KeywordsOf(k), d.subject, d.content)
                 THEN Append(@, id) ELSE @]
  /\ scanPc' = [scanPc EXCEPT ![k] = "pause"]
  /\ UNCHANGED <<storeVars, pipeVars, userToken, popupActive, messages,
                 scanI, failed, handed, mail>>

\* The timer fires: i++ and the loop goes on.
PauseOver(k) ==
  /\ UNCHANGED <<alarm, ports, handler, reconciled>>
  /\ scanPc[k] = "pause"
  /\ LoopFrom(k, messages[k], scanI[k] + 1, validEmails[k])
  /\ UNCHANGED <<userToken, popupActive, fetched, failed>>

\* The popup receives processEmailInPopup: its listener calls summarizeEmail
\* with the content and answers, so that the callback finds no lastError.
MessageDelivered(r) ==
  /\ UNCHANGED <<alarm, ports, handler, reconciled>>
  /\ scanPc["due"] = "sent"
  /\ scanPc' = [scanPc EXCEPT !["due"] = "returned"]
  /\ SummarizeEmail(r, "popup")
  /\ Handed("due", r, FirstValidEmail(validEmails["due"]))
  /\ UNCHANGED <<userToken, popupActive, messages, scanI, validEmails,
                 fetched, failed>>

\* No popup receives the message: the callback finds lastError and calls
\* summarizeEmail of the background script.
MessageFailed(r) ==
  /\ UNCHANGED <<alarm, ports, handler, reconciled>>
  /\ scanPc["due"] = "sent"
  /\ scanPc' = [scanPc EXCEPT !["due"] = "returned"]
  /\ SummarizeEmail(r, "bg")
  /\ Handed("due", r, FirstValidEmail(validEmails["due"]))
  /\ UNCHANGED <<userToken, popupActive, messages, scanI, validEmails,
                 fetched, failed>>

ScanNext ==
  \/ \E k \in Scans : ScanTriggered(k)
  \/ PopupConnected
  \/ PopupDisconnected
  \/ \E k \in Scans, ok \in BOOLEAN : TokenSettled(k, ok) \/ UserSettled(k, ok)
  \/ \E k \in Scans : ListFailed(k)
  \/ \E k \in Scans, m \in Inboxes : ListSettled(k, m)
  \/ \E k \in Scans : FetchFailed(k) \/ FetchSettled(k) \/ PauseOver(k)
  \/ \E r \in Runs : MessageDelivered(r) \/ MessageFailed(r)

SpecScan == Init /\ [][ScanNext]_vars

(***************************************************************************)
(* C16.  An upstream request of a scan that fails (the token, the user     *)
(* info, the message list, or one message) aborts the scan: the scan hands *)
(* no email to summarizeEmail / handlePaymentSuccess.                      *)
(***************************************************************************)
C16_FetchFailureAbortsScan ==
  \A k \in Scans : failed[k] # "none" => handed[k] = <<>>

\* Message id meets the keyword test of scan k.
Matching(k, id) ==
  ContainsAllKeywords(KeywordsOf(k), Mailbox[id].subject, Mailbox[id].content)

\* The first of the messages ids that meets the keyword test of scan k, 0
\* when none does.
FirstMatch(k, ids) ==
  LET v == SelectSeq(ids, LAMBDA id : Matching(k, id))
  IN  IF v = <<>> THEN 0 ELSE v[1]

\* The messages sub are messages of all, in the order of all.
InOrder(sub, all) ==
  \E f \in [1..Len(sub) -> 1..Len(all)] :
    /\ \A i \in 1..Len(sub) : all[f[i]] = sub[i]
    /\ \A i, j \in 1..Len(sub) : i < j => f[i] < f[j]

C18_NothingUncaught == uncaught = {}

(***************************************************************************)
(* The due-email runs of the background script with a store whose          *)
(* requests may fail: the open request, getAll of the insert, and the read *)
(* of sendNotifications.                                                   *)
(***************************************************************************)
FailNext ==
  \/ \E r \in Runs : kind[r] = "none" /\ StartDue(r, "bg")
  \/ InitializeEngine("bg") \/ LoadResolved("bg") \/ LoadRejected("bg")
  \/ \E r \in Runs :
       \/ WaitTick(r) \/ WaitInitResolved(r) \/ WaitInitRejected(r)
       \/ CreateThrew(r) \/ StreamChunk(r) \/ StreamThrew(r)
       \/ StreamEnded(r)
  \/ \E r \in Runs, out \in DueOutputs : CreateResolved(r, out)
  \/ \E r \in Runs :
       \/ SaveOpenFailed(r) \/ SaveOpened(r) \/ SaveChecked(r)
       \/ SaveCheckFailed(r) \/ SaveCommitted(r)
       \/ NotifOpenFailed(r) \/ NotifOpened(r) \/ NotifRead(r)
       \/ NotifReadFailed(r)

SpecFail == Init /\ [][FailNext]_vars

(***************************************************************************)
(* C19.  A run whose insert failed (the open request, the transaction, or  *)
(* a request of it) creates no notification titled "Payment Summary".      *)
(***************************************************************************)
C19_FailedInsertNoSummaryNote ==
  \A r \in Runs :
    (kind[r] = "due" /\ savePc[r] = "failed")
    => \A i \in 1..Len(notes[r]) : notes[r][i].title # "Payment Summary"

(***************************************************************************)
(* parseBankSummary and the prompt of summarizeEmail.                      *)
(***************************************************************************)
\* The first position from i on where s, in lower case, has the text t; 0
\* when there is none.
RECURSIVE IndexOf(_, _, _)
IndexOf(s, t, i) ==
  IF i + Len(t) - 1 > Len(s) THEN 0
  ELSE IF ToLowerCase(SubSeq(s, i, i + Len(t) - 1)) = t THEN i
  ELSE IndexOf(s, t, i + 1)

\* The characters of [\s:]* that s has from position i on.
RECURSIVE MarkerTail(_, _)
MarkerTail(s, i) ==
  IF i <= Len(s) /\ (IsSpace(s[i]) \/ s[i] = ":") THEN 1 + MarkerTail(s, i + 1)
  ELSE 0

\* \w of a regular expression.
IsWordChar(c) ==
  \/ \E p \in 1..26 : UpperCase[p] = c \/ LowerCase[p] = c
  \/ IsDigit(c)
  \/ c = "_"

\* A search that finds no word "note".
NoNoteIndex(s, i) == 0

\* summaryPart.search(/\bnote\b/i): the first position of "note" with no
\* word character before or after it; 0 when there is none.
RECURSIVE NoteIndex(_, _)
NoteIndex(s, i) ==
  LET p == IndexOf(s, <<"n", "o", "t", "e">>, i)
  IN  IF p = 0 THEN 0
      ELSE IF /\ (p = 1 \/ ~IsWordChar(s[p - 1]))
              /\ (p + 4 > Len(s) \/ ~IsWordChar(s[p + 4]))
        THEN p
      ELSE NoteIndex(s, p + 1)

\* String.prototype.split("\n").
RECURSIVE SplitLines(_)
SplitLines(s) ==
  LET nl == {i \in 1..Len(s) : s[i] = "\n"}
  IN  IF nl = {} THEN <<s>>
      ELSE LET p == CHOOSE i \in nl : \A j \in nl : i <= j
           IN  <<SubSeq(s, 1, p - 1)>> \o SplitLines(SubSeq(s, p + 1, Len(s)))

\* const expectedKeys: the key of the first pattern the line matches, "" when
\* it matches none.
ExpectedKey(line) ==
  IF IndexOf(line, <<"t", "o", "t", "a", "l", " ", "a", "m", "o", "u", "n", "t", " ", "d", "u", "e">>, 1) # 0
    THEN "Total Amount Due"
  ELSE IF IndexOf(line, <<"r", "e", "w", "a", "r", "d", "s", " ", "e", "a", "r", "n", "e", "d">>, 1) # 0
    THEN "Rewards Earned"
  ELSE IF \/ IndexOf(line, <<"p", "a", "y", "m", "e", "n", "t", " ", "d", "u", "e", " ", "d", "a", "t", "e">>, 1) # 0
          \/ IndexOf(line, <<"b", "i", "l", "l", " ", "d", "u", "e", " ", "d", "a", "t", "e">>, 1) # 0
    THEN "Payment Due Date"
  ELSE ""

\* A replacement by the first two characters of what was matched.
RECURSIVE normalizeToPrefix(_)
normalizeToPrefix(text) ==
  IF text = <<>> THEN <<>>
  ELSE IF Len(text) >= 3 /\ SubSeq(text, 1, 3) = <<"U+00E2", "U+0082", "U+00B9">>
    THEN <<"U+00E2", "U+0082">> \o normalizeToPrefix(SubSeq(text, 4, Len(text)))
  ELSE <<Head(text)>> \o normalizeToPrefix(Tail(text))

\* normalizeCurrencySymbols: every mis-decoded rupee sign (the characters
\* U+00E2, U+0082, U+00B9) becomes the rupee sign U+20B9.
RECURSIVE normalizeCurrencySymbols(_)
normalizeCurrencySymbols(text) ==
  IF text = <<>> THEN <<>>
  ELSE IF Len(text) >= 3 /\ SubSeq(text, 1, 3) = <<"U+00E2", "U+0082", "U+00B9">>
    THEN <<"U+20B9">> \o normalizeCurrencySymbols(SubSeq(text, 4, Len(text)))
  ELSE <<Head(text)>> \o normalizeCurrencySymbols(Tail(text))

\* summary[key] = value.
SetKey(summary, key, value) ==
  [x \in DOMAIN summary \cup {key} |-> IF x = key THEN value ELSE summary[x]]

\* The loop without i = j: the line after a label is its value and is then
\* looked at as a line of its own.
RECURSIVE SummaryFromEach(_, _, _)
SummaryFromEach(lines, i, summary) ==
  IF i > Len(lines) THEN summary
  ELSE LET key == ExpectedKey(lines[i])
       IN  IF key = "" THEN SummaryFromEach(lines, i + 1, summary)
           ELSE SummaryFromEach(lines, i + 1,
                  SetKey(summary, key,
                         IF i + 1 <= Len(lines)
                           THEN normalizeCurrencySymbols(lines[i + 1])
                           ELSE <<>>))

\* The loop with the assignment made only when a value line was found.
RECURSIVE SummaryFromFound(_, _, _)
SummaryFromFound(lines, i, summary) ==
  IF i > Len(lines) THEN summary
  ELSE LET key == ExpectedKey(lines[i])
       IN  IF key = "" \/ i + 1 > Len(lines)
             THEN SummaryFromFound(lines, i + 1, summary)
           ELSE SummaryFromFound(lines, i + 2,
                  SetKey(summary, key, normalizeCurrencySymbols(lines[i + 1])))

\* The loop over the lines from index i on: a line that matches an expected
\* key takes the next line as its value ("" when it is the last) and the
\* loop goes on after the value.
RECURSIVE SummaryFrom(_, _, _)
SummaryFrom(lines, i, summary) ==
  IF i > Len(lines) THEN summary
  ELSE LET key == ExpectedKey(lines[i])
       IN  IF key = "" THEN SummaryFrom(lines, i + 1, summary)
           ELSE IF i + 1 <= Len(lines)
             THEN SummaryFrom(lines, i + 2,
                    SetKey(summary, key, normalizeCurrencySymbols(lines[i + 1])))
           ELSE SummaryFrom(lines, i + 1, SetKey(summary, key, <<>>))

\* {}: the mapping without a key.
EmptySummary == [x \in {} |-> <<>>]

\* parseBankSummary without the test of markerMatch: the text as a whole is
\* taken for the summary part.
ParseWholeText(emailText) ==
  LET lines == SelectSeq([n \in 1..Len(SplitLines(emailText)) |->
                            TrimText(SplitLines(emailText)[n])],
                         LAMBDA line : line # <<>>)
  IN  SummaryFrom(lines, 1, EmptySummary)

\* parseBankSummary: {} when the text has no "summary" marker; otherwise the
\* text after the marker, up to a word "note", is read line by line.
parseBankSummary(emailText) ==
  LET p == IndexOf(emailText, <<"s", "u", "m", "m", "a", "r", "y">>, 1)
  IN  IF p = 0 THEN EmptySummary
      ELSE
        LET startIndex == p + 7 + MarkerTail(emailText, p + 7)
            part0 == TrimText(SubSeq(emailText, startIndex, Len(emailText)))
            noteIndex == NoteIndex(part0, 1)
            summaryPart == IF noteIndex # 0
                             THEN TrimText(SubSeq(part0, 1, noteIndex - 1))
                             ELSE part0
            split == SplitLines(summaryPart)
            lines == SelectSeq([n \in 1..Len(split) |-> TrimText(split[n])],
                               LAMBDA line : line # <<>>)
        IN  SummaryFrom(lines, 1, EmptySummary)

(***************************************************************************)
(* parseBankSummary on a family of emails: a greeting, the summary marker, *)
(* and MaxLines lines each taken from SummaryLines.                        *)
(***************************************************************************)
MaxLines == 3

\* The lines the emails are made of: a blank line, labels, values, a value
\* with "notes" in it, and a line with the word "NOTE".
SummaryLines ==
  <<<<>>,
    <<"T", "o", "t", "a", "l", " ", "A", "m", "o", "u", "n", "t", " ", "D",
      "u", "e">>,
    <<"1", "2", "3", "4", ".", "5", "6">>,
    <<"R", "e", "w", "a", "r", "d", "s", " ", "E", "a", "r", "n", "e", "d">>,
    <<"1", "0", " ", "n", "o", "t", "e", "s">>,
    <<"5", " ", "N", "O", "T", "E", ":">>,
    <<" ", "b", "i", "l", "l", " ", "d", "u", "e", " ", "d", "a", "t", "e",
      " ">>>>

RECURSIVE Power(_, _)
Power(b, n) == IF n = 0 THEN 1 ELSE b * Power(b, n - 1)

NumLetters == Power(Len(SummaryLines), MaxLines)

\* One more letter: a label, a blank line, its value, a label, its value.
ExampleLines ==
  <<SummaryLines[2], <<>>, SummaryLines[3], SummaryLines[4], <<"1", "0">>>>

MaxChars == 4

\* The characters of the values with currency signs: the three a rupee sign
\* is mis-decoded to, and the rupee sign.
CurrencyChars == <<"U+00E2", "U+0082", "U+00B9", "U+20B9">>

NumTexts == Power(Len(CurrencyChars), MaxChars)

\* Text m of MaxChars characters, its digits to the base Len(CurrencyChars).
TextOf(m) ==
  [i \in 1..MaxChars |->
     CurrencyChars[((m \div Power(Len(CurrencyChars), i - 1))
                      % Len(CurrencyChars)) + 1]]

LastLetter == NumLetters + NumTexts

\* The lines of letter n: its digits to the base Len(SummaryLines), the
\* example under the number NumLetters, and above it the label of the amount
\* with a text of currency signs as its value.
LinesOf(n) ==
  IF n = NumLetters THEN ExampleLines
  ELSE IF n > NumLetters
    THEN <<SummaryLines[2], TextOf(n - NumLetters - 1)>>
  ELSE [i \in 1..MaxLines |->
          SummaryLines[((n \div Power(Len(SummaryLines), i - 1))
                          % Len(SummaryLines)) + 1]]

\* lines.join("\n")
RECURSIVE JoinLines(_)
JoinLines(lines) ==
  IF lines = <<>> THEN <<>>
  ELSE IF Len(lines) = 1 THEN lines[1]
  ELSE lines[1] \o <<"\n">> \o JoinLines(Tail(lines))

Greeting == <<"H", "i", "\n", "S", "u", "m", "m", "a", "r", "y", ":", "\n">>

\* The text of an email with the given lines after the marker.
LetterOf(lines) == Greeting \o JoinLines(lines)

\* The summaries parseBankSummary gives for the letters.
LetterDicts ==
  [n \in 0..LastLetter |-> parseBankSummary(LetterOf(LinesOf(n)))]

(***************************************************************************)
(* The prompt of a run.                                                    *)
(***************************************************************************)
\* const summaryDict of summarizeEmail called with the content of message
\* id.
SummaryDicts ==
  [id \in 1..Len(Mailbox) |-> parseBankSummary(Mailbox[id].content)]

\* What the prompt of run r is built from: the message (one of the mailbox,
\* or letter n under the number Len(Mailbox) + 1 + n) and, in
\* summarizeEmail, JSON.stringify(summaryDict).
PromptOf(r) ==
  [mail |-> mail[r],
   summaryDict |-> IF kind[r] # "due" THEN EmptySummary
                   ELSE IF mail[r] <= Len(Mailbox) THEN SummaryDicts[mail[r]]
                   ELSE LetterDicts[mail[r] - Len(Mailbox) - 1]]

\* checkEmails, or the popup's listener, calls summarizeEmail with the content
\* of message id.
SummarizeMail(r, c, id) ==
  /\ UNCHANGED <<alarm, ports, handler, reconciled>>
  /\ SummarizeEmail(r, c)
  /\ mail' = [mail EXCEPT ![r] = id]
  /\ UNCHANGED <<userToken, popupActive, scanPc, messages, scanI,
                 validEmails, fetched, failed, handed>>

(***************************************************************************)
(* The runs of summarizeEmail on the emails of the mailbox, up to their    *)
(* completion request.                                                     *)
(***************************************************************************)
MailNext ==
  \/ \E r \in Runs, c \in {"bg", "popup"}, id \in 1..Len(Mailbox) :
       SummarizeMail(r, c, id)
  \/ \E c \in {"bg", "popup"} :
       InitializeEngine(c) \/ LoadResolved(c) \/ LoadRejected(c)
  \/ \E r \in Runs :
       WaitTick(r) \/ WaitInitResolved(r) \/ WaitInitRejected(r)

SpecMail == Init /\ [][MailNext]_vars

\* The text has the marker of parseBankSummary.
HasMarker(emailText) ==
  \E i \in 1..Len(emailText) :
    /\ i + 6 <= Len(emailText)
    /\ ToLowerCase(SubSeq(emailText, i, i + 6))
         = <<"s", "u", "m", "m", "a", "r", "y">>

\* The messages of the mailbox whose content has no marker.
NoMarkerMails == {id \in 1..Len(Mailbox) : ~HasMarker(Mailbox[id].content)}

(***************************************************************************)
(* C20.  For an email body without the "summary" marker parseBankSummary   *)
(* returns the mapping without a key, and the run goes on as any other:    *)
(* once the engine is set its prompt is built, with that empty mapping,    *)
(* and the completion request is made; before the request it ends only as  *)
(* every run does, when the wait for the engine was in vain.               *)
(***************************************************************************)
C20_NoMarkerRunContinues ==
  /\ \A id \in NoMarkerMails : DOMAIN SummaryDicts[id] = {}
  /\ \A r \in Runs :
       (kind[r] = "due" /\ mail[r] \in NoMarkerMails)
       => /\ pc[r] \in {"wait_sleep", "wait_init", "creating", "failed_engine"}
          /\ pc[r] \in {"wait_sleep", "wait_init", "failed_engine"}
               => request[r] = <<>>
          /\ pc[r] = "creating"
               => /\ request[r] # <<>>
                  /\ DOMAIN PromptOf(r).summaryDict = {}
                  /\ r \notin uncaught

\* A run on an email without the marker has made its completion request,
\* after waiting for the engine, next to a run on an email with the marker,
\* whose dictionary has the amount and the due date.
C20_Witness ==
  \E r, q \in Runs :
    /\ kind[r] = "due" /\ mail[r] = 2 /\ 2 \in NoMarkerMails
    /\ pc[r] = "creating" /\ request[r] # <<>> /\ inits[r] = 1
    /\ kind[q] = "due" /\ mail[q] = 1 /\ pc[q] = "creating"
    /\ DOMAIN PromptOf(q).summaryDict
         = {"Total Amount Due", "Payment Due Date"}

(***************************************************************************)
(* The runs of the background script next to the popup's port connecting   *)
(* and disconnecting and to further triggers, with every timer firing and  *)
(* every call of a run (engine load, completion, stream, store request)    *)
(* returning.                                                              *)
(***************************************************************************)
\* The answers the completion service gives in these runs.
LiveOutputs(k) ==
  IF k = "due"
    THEN {<< <<WS>> \o GoodObject(D1, A1234, BankX) >>,
          << <<TXT>> \o GoodObject(D1, A1234p01, BankX) >>}
    ELSE {<< <<LB, KV("Total Amount Due", Str(P1234)), RB>> >>}

\* A step of run r: a timer of it fires or a call of it returns.
RunStep(r) ==
  \/ WaitTick(r) \/ WaitInitResolved(r) \/ WaitInitRejected(r)
  \/ CreateThrew(r) \/ StreamChunk(r) \/ StreamThrew(r)
  \/ StreamEnded(r) \/ UpdateReturned(r)
  \/ \E out \in LiveOutputs(kind[r]) : CreateResolved(r, out)
  \/ SaveOpened(r) \/ SaveChecked(r) \/ SaveCommitted(r)
  \/ UpdOpened(r) \/ UpdScanned(r) \/ UpdCommitted(r)
  \/ NotifOpened(r) \/ NotifRead(r)

LiveNext ==
  \/ \E r \in Runs : kind[r] = "none" /\ StartDue(r, "bg")
  \/ \E r \in Runs : kind[r] = "none" /\ StartSuccess(r)
  \/ PopupConnected
  \/ PopupDisconnected
  \/ InitializeEngine("bg") \/ LoadResolved("bg") \/ LoadRejected("bg")
  \/ \E r \in Runs : RunStep(r)

SpecLive ==
  /\ Init
  /\ [][LiveNext]_vars
  /\ \A r \in Runs : WF_vars(RunStep(r))

(***************************************************************************)
(* C21.  A run that has started reaches its end, done or failed, with      *)
(* everything it started in the store ended too, whatever the port of the  *)
(* popup and the other triggers do meanwhile: neither changes where a run  *)
(* stands.                                                                 *)
(***************************************************************************)
C21_StartedRunEnds ==
  /\ \A r \in Runs : (kind[r] # "none") ~> RunOver(r)
  /\ [][popupActive' # popupActive
          => /\ pc' = pc /\ stream' = stream /\ cur' = cur
             /\ savePc' = savePc /\ updPc' = updPc /\ notifPc' = notifPc
             /\ openq' = openq /\ txq' = txq]_vars

\* Both runs have ended, one done with its record stored and one failed,
\* with the popup gone.
C21_Witness ==
  \E r, q \in Runs :
    /\ RunOver(r) /\ pc[r] = "done" /\ savePc[r] = "done"
    /\ RunOver(q) /\ pc[q] \in PcFailed
    /\ ~popupActive /\ scanPc["due"] # "idle"


(***************************************************************************)
(* Alarms: onInstalled creates them, onAlarm handles them by name.         *)
(***************************************************************************)
Workers == {"bg", "legacy"}

\* chrome.alarms.create(...) in onInstalled of each worker.
CreatedAlarms(w) ==
  IF w = "bg"
  THEN {"keepAlive", "checkEmails", "sendNotification", "checkPaymentSuccess"}
  ELSE {"keepAlive", "checkEmails", "sendNotifications"}

\* The function the onAlarm listener of a worker calls for an alarm name.
OnAlarm(w, name) ==
  IF w = "bg"
  THEN CASE name = "checkEmails" -> "checkEmails"
         [] name = "sendNotification" -> "sendNotifications"
         [] name = "checkPaymentSuccess" -> "checkPaymentSuccessEmails"
         [] name = "keepAlive" -> "getPlatformInfo"
         [] OTHER -> "none"
  ELSE CASE name = "checkEmails" -> "checkEmails"
         [] name = "sendNotifications" -> "checkEmails"
         [] name = "keepAlive" -> "getPlatformInfo"
         [] OTHER -> "none"

\* An alarm of a worker goes off and the listener runs.
AlarmFired(w, name) ==
  /\ name \in CreatedAlarms(w)
  /\ alarm' = <<w, name>>
  /\ UNCHANGED <<ports, handler, reconciled>>
  /\ CASE OnAlarm(w, name) = "checkEmails" ->
            /\ CheckEmails("due")
            /\ UNCHANGED <<storeVars, pipeVars, userToken, popupActive, mail>>
       [] OnAlarm(w, name) = "checkPaymentSuccessEmails" ->
            /\ CheckEmails("success")
            /\ UNCHANGED <<storeVars, pipeVars, userToken, popupActive, mail>>
       [] OnAlarm(w, name) = "sendNotifications" ->
            /\ \E r \in Runs : SendNotifications(r, w)
            /\ UNCHANGED <<userToken, popupActive, scanPc, messages, scanI,
                           validEmails, fetched, failed, handed, mail>>
       [] OTHER ->
            UNCHANGED <<storeVars, pipeVars, userToken, popupActive, scanPc,
                        messages, scanI, validEmails, fetched, failed, handed,
                        mail>>

AlarmNext ==
  \/ \E w \in Workers : \E name \in CreatedAlarms(w) : AlarmFired(w, name)
  \/ \E k \in Scans, ok \in BOOLEAN : TokenSettled(k, ok) \/ UserSettled(k, ok)
  \/ \E k \in Scans : ListFailed(k)
  \/ \E r \in Runs : NotifOpened(r) \/ NotifRead(r)

SpecAlarm == Init /\ [][AlarmNext]_vars

\* A scan of kind k starts in this step and nothing else happens.
ScanStarts(k) ==
  /\ scanPc[k] = "idle"
  /\ scanPc'[k] = "token"
  /\ \A j \in Scans \ {k} : scanPc'[j] = scanPc[j]
  /\ UNCHANGED <<storeVars, pipeVars>>

\* A notification sweep starts in this step and no scan does.
SweepStarts ==
  /\ \E r \in Runs : /\ kind'[r] = "call"
                     /\ notifPc'[r] = "open"
                     /\ Unused(r)
  /\ scanPc' = scanPc

\* C22: every alarm created at install has a handler under its own name,
\* and the handler starts the action the name stands for: "checkEmails"
\* starts a due-email scan, the notification alarm starts a notification
\* sweep, "checkPaymentSuccess" starts a payment-success scan, and
\* "keepAlive" changes nothing else.
C22_TriggersBound ==
  /\ \A w \in Workers : \A n \in CreatedAlarms(w) : OnAlarm(w, n) # "none"
  /\ [][alarm' # alarm =>
          LET n == alarm'[2] IN
          /\ n = "checkEmails" => ScanStarts("due")
          /\ n \in {"sendNotification", "sendNotifications"} => SweepStarts
          /\ n = "checkPaymentSuccess" => ScanStarts("success")
          /\ n = "keepAlive" => UNCHANGED <<storeVars, pipeVars, scanPc>>]_vars


(***************************************************************************)
(* The accumulated text of a stream.                                       *)
(***************************************************************************)
\* The chunks' contents one after the other; a chunk without content adds
\* nothing.
RECURSIVE Fragments(_)
Fragments(chunks) ==
  IF chunks = <<>> THEN <<>> ELSE Head(chunks) \o Fragments(Tail(chunks))

\* A store function of run r has been called.
StoreCalled(r) ==
  savePc[r] # "none" \/ updPc[r] # "none" \/ notifPc[r] # "none"

\* C23: while a run streams, what it has accumulated followed by what is
\* still to arrive is always the same text, the fragments in arrival
\* order; the step that leaves the loop to parse happens with nothing left
\* to arrive and parses exactly the accumulated text; and no store function
\* of the run is called while the completion is awaited or streaming.
C23_WholeStreamParsed ==
  /\ [](\A r \in Runs : pc[r] \in {"creating", "streaming"} => ~StoreCalled(r))
  /\ [][\A r \in Runs :
          /\ pc[r] = "streaming" /\ pc'[r] = "streaming"
               => cur'[r] \o Fragments(stream'[r])
                    = cur[r] \o Fragments(stream[r])
          /\ pc[r] = "streaming"
             /\ pc'[r] \in {"done", "updating", "failed_parse",
                            "failed_exception"}
               => /\ stream[r] = <<>>
                  /\ pc'[r] = "failed_parse"
                       <=> ~JSONParse(JsonResponse(cur[r])).ok
                  /\ pc'[r] = "done" =>
                       LET v == JSONParse(JsonResponse(cur[r])).value
                       IN  saveArg'[r] =
                             PaymentData(Get(v, "Due Date"),
                                         Get(v, "Total Amount Due"),
                                         Get(v, "Bank Name"))
                  /\ pc'[r] = "updating" =>
                       updArg'[r] =
                         Get(JSONParse(JsonResponse(cur[r])).value,
                             "Total Amount Due")]_vars

\* A run whose stream came in three chunks, one without content and the
\* last with the marker, has been parsed and its record handed to the store.
C23_Witness ==
  \E r \in Runs :
    /\ kind[r] = "due" /\ pc[r] = "done" /\ savePc[r] # "none"
    /\ saveArg[r] = PaymentData(Str(D1), Str(A1234c), Str(BankPadded))


(***************************************************************************)
(* The response parser: the text before the marker phrase, trimmed.        *)
(***************************************************************************)
\* The position of the first marker phrase in a text, Len + 1 without one.
MarkerAt(text) ==
  IF \E i \in 1..Len(text) : text[i] = MARK
    THEN CHOOSE i \in 1..Len(text) :
           text[i] = MARK /\ \A j \in 1..(i - 1) : text[j] # MARK
    ELSE Len(text) + 1

\* What may follow a marker phrase in a response.
AfterMarker ==
  {<<>>, <<TXT>>, <<WS, Scalar(Null)>>, <<MARK, RB>>,
   GoodObject(D2, A1, BankX)}

\* C24: the outcome of the parse of a streamed response is that of
\* JSON.parse on the text before its first marker phrase, trimmed (the whole
\* text when it has no marker), and no text put after the marker changes it.
C24_ParsedBeforeMarker ==
  [][\A r \in Runs :
       pc[r] = "streaming"
       /\ pc'[r] \in {"done", "updating", "failed_parse", "failed_exception"}
       => LET text   == cur[r]
              before == SubSeq(text, 1, MarkerAt(text) - 1)
              parsed == JSONParse(TrimRight(TrimLeft(before)))
          IN  /\ pc'[r] = "failed_parse" <=> ~parsed.ok
              /\ pc'[r] = "failed_exception"
                   <=> parsed.ok /\ PropertyThrows(parsed.value)
              /\ pc'[r] = "done" =>
                   saveArg'[r] =
                     PaymentData(Get(parsed.value, "Due Date"),
                                 Get(parsed.value, "Total Amount Due"),
                                 Get(parsed.value, "Bank Name"))
              /\ pc'[r] = "updating" =>
                   updArg'[r] = Get(parsed.value, "Total Amount Due")
              /\ \A tail \in AfterMarker :
                   JSONParse(JsonResponse(before \o <<MARK>> \o tail)) = parsed
              /\ MarkerAt(text) = Len(text) + 1
                   => JsonResponse(text) = TrimRight(TrimLeft(text))]_vars

\* A response with text after the marker has been parsed to its amount, and
\* a response without marker, with leading white space, to its record.
C24_Witness ==
  \E r, q \in Runs :
    /\ kind[r] = "success" /\ updPc[r] # "none" /\ updArg[r] = Str(A1234c)
    /\ kind[q] = "due" /\ savePc[q] # "none"
    /\ saveArg[q] = PaymentData(Str(D1), Str(A1234), Str(BankX))



(***************************************************************************)
(* summarizeEmail in the popup on the letters, up to the completion        *)
(* request; the model follows one letter.                                  *)
(***************************************************************************)
\* The popup's emailData listener calls summarizeEmail with the content of
\* the email it was sent: letter n.
SummarizeLetter(r, n) ==
  /\ \A q \in Runs : mail[q] = 0
  /\ UNCHANGED <<alarm, ports, handler, reconciled>>
  /\ SummarizeEmail(r, "popup")
  /\ mail' = [mail EXCEPT ![r] = Len(Mailbox) + 1 + n]
  /\ UNCHANGED <<userToken, popupActive, scanPc, messages, scanI,
                 validEmails, fetched, failed, handed>>

ParseNext ==
  \/ \E r \in Runs, n \in 0..LastLetter : SummarizeLetter(r, n)
  \/ InitializeEngine("popup") \/ LoadResolved("popup") \/ LoadRejected("popup")
  \/ \E r \in Runs :
       WaitTick(r) \/ WaitInitResolved(r) \/ WaitInitRejected(r)

SpecParse == Init /\ [][ParseNext]_vars


(***************************************************************************)
(* What the letters say, line by line.                                     *)
(***************************************************************************)
\* The positions of a line where the word "note" stands, in any case,
\* with no letter, digit or underscore next to it.
NoteWords(line) ==
  {p \in 1..(Len(line) - 3) :
     /\ ToLowerCase(SubSeq(line, p, p + 3)) = <<"n", "o", "t", "e">>
     /\ p = 1 \/ ~IsWordChar(line[p - 1])
     /\ p + 4 > Len(line) \/ ~IsWordChar(line[p + 4])}

\* The first line with the word, Len + 1 when no line has it.
NoteLine(lines) ==
  IF \E i \in 1..Len(lines) : NoteWords(lines[i]) # {}
    THEN CHOOSE i \in 1..Len(lines) :
           /\ NoteWords(lines[i]) # {}
           /\ \A j \in 1..(i - 1) : NoteWords(lines[j]) = {}
    ELSE Len(lines) + 1

\* The lines up to the word: the lines before its line, and what its line
\* has before it.
BeforeNote(lines) ==
  LET n == NoteLine(lines)
  IN  IF n > Len(lines) THEN lines
      ELSE LET w == NoteWords(lines[n])
               p == CHOOSE q \in w : \A x \in w : q <= x
           IN  SubSeq(lines, 1, n - 1) \o <<SubSeq(lines[n], 1, p - 1)>>

\* The lines, trimmed, that are not blank.
NonBlank(lines) ==
  SelectSeq([i \in 1..Len(lines) |-> TrimText(lines[i])],
            LAMBDA line : line # <<>>)

\* Line i is read as a label: it has a label text and is not the value of
\* the label before it.
RECURSIVE IsLabel(_, _)
IsLabel(nb, i) ==
  /\ ExpectedKey(nb[i]) # ""
  /\ i = 1 \/ ~IsLabel(nb, i - 1)

\* The last label of a key among the non-blank lines, 0 when it has none.
LastLabel(nb, key) ==
  LET at == {i \in 1..Len(nb) : IsLabel(nb, i) /\ ExpectedKey(nb[i]) = key}
  IN  IF at = {} THEN 0 ELSE CHOOSE i \in at : \A j \in at : j <= i

Keys == {"Total Amount Due", "Rewards Earned", "Payment Due Date"}

\* The non-blank lines of the letters before the word "note", and the
\* summaries parseBankSummary gives for the letters cut there.
RegionOf == [n \in 0..NumLetters |-> NonBlank(BeforeNote(LinesOf(n)))]

CutDicts ==
  [n \in 0..NumLetters |-> parseBankSummary(LetterOf(BeforeNote(LinesOf(n))))]

\* The keys with a label only from the word "note" on.
OnlyAfterNote ==
  [n \in 0..NumLetters |->
     {k \in Keys :
        /\ \E i \in 1..Len(LinesOf(n)) : ExpectedKey(LinesOf(n)[i]) = k
        /\ \A i \in 1..Len(RegionOf[n]) : ExpectedKey(RegionOf[n][i]) # k}]

\* The keys with a label that has its value line before the word "note".
ValueBeforeNote ==
  [n \in 0..NumLetters |->
     {k \in Keys : \E i \in 1..(Len(RegionOf[n]) - 1) :
                     IsLabel(RegionOf[n], i) /\ ExpectedKey(RegionOf[n][i]) = k}]

\* The letter of run r, 0..NumLetters; -1 when it was not called with one of
\* these.
LetterNo(r) ==
  IF kind[r] = "due" /\ mail[r] > Len(Mailbox)
     /\ mail[r] <= Len(Mailbox) + 1 + NumLetters
    THEN mail[r] - Len(Mailbox) - 1 ELSE -1

\* C25: the summary of a letter is that of the letter cut at its first whole
\* word "note" (in any case); it has no key whose labels all come from that
\* word on, and it has every key with a label whose value line is before it.
C25_NoteOnwardIgnored ==
  \A r \in Runs :
    LetterNo(r) >= 0 =>
      LET n == LetterNo(r)
          d == PromptOf(r).summaryDict
      IN  /\ d = CutDicts[n]
          /\ DOMAIN d \cap OnlyAfterNote[n] = {}
          /\ ValueBeforeNote[n] \subseteq DOMAIN d

\* A run on the letter "5 NOTE:", "Rewards Earned", "1234.56", whose label
\* and value come after the word, has reached its completion request.
C25_Witness ==
  \E r \in Runs :
    /\ LetterNo(r) >= 0
    /\ LinesOf(LetterNo(r)) = <<SummaryLines[6], SummaryLines[4], SummaryLines[3]>>
    /\ pc[r] = "creating"


\* The keys that have a label among the lines before the word "note".
LabelKeys ==
  [n \in 0..NumLetters |-> {k \in Keys : LastLabel(RegionOf[n], k) # 0}]

\* For the keys whose last label is followed by a line: that line, the first
\* non-blank line after the label.
ValueOf ==
  [n \in 0..NumLetters |->
     [k \in {x \in LabelKeys[n] :
               LastLabel(RegionOf[n], x) < Len(RegionOf[n])} |->
        normalizeCurrencySymbols(
          RegionOf[n][LastLabel(RegionOf[n], k) + 1])]]

\* C26: the summary of a letter has exactly the keys of the lines read as
\* labels (a line taken as a value is not read as a label), each key with a
\* line after its last label has the first non-blank line after that label
\* as its value, and the letter "Total Amount Due", blank, "1234.56",
\* "Rewards Earned", "10" gives Total Amount Due = "1234.56" and
\* Rewards Earned = "10".
C26_ValueIsNextLine ==
  \A r \in Runs :
    LetterNo(r) >= 0 =>
      LET n == LetterNo(r)
          d == PromptOf(r).summaryDict
      IN  /\ DOMAIN d = LabelKeys[n]
          /\ \A k \in DOMAIN ValueOf[n] : d[k] = ValueOf[n][k]
          /\ n = NumLetters =>
               d = [k \in {"Total Amount Due", "Rewards Earned"} |->
                      IF k = "Total Amount Due"
                        THEN <<"1", "2", "3", "4", ".", "5", "6">>
                        ELSE <<"1", "0">>]

\* A run on the example has reached its completion request with both
\* values in its summary.
C26_Witness ==
  \E r \in Runs :
    /\ LetterNo(r) = NumLetters /\ pc[r] = "creating"
    /\ PromptOf(r).summaryDict["Total Amount Due"] = SummaryLines[3]
    /\ PromptOf(r).summaryDict["Rewards Earned"] = <<"1", "0">>

\* The summaries of the letters without the last of their non-blank lines
\* before the word "note".
ShortDicts ==
  [n \in 0..NumLetters |->
     parseBankSummary(
       LetterOf(SubSeq(RegionOf[n], 1, Len(RegionOf[n]) - 1)))]

\* C27: when the last non-blank line before the end of the region is read
\* as a label, parseBankSummary still returns a summary, the key of that
\* label has the empty string as its value, and every other key is as in
\* the summary of the letter without that line.
C27_LastLabelEmpty ==
  \A r \in Runs :
    LetterNo(r) >= 0 =>
      LET n  == LetterNo(r)
          d  == PromptOf(r).summaryDict
          nb == RegionOf[n]
      IN  nb # <<>> /\ IsLabel(nb, Len(nb)) =>
            LET key == ExpectedKey(nb[Len(nb)])
            IN  /\ key \in DOMAIN d
                /\ d[key] = <<>>
                /\ DOMAIN d \ {key} = DOMAIN ShortDicts[n] \ {key}
                /\ \A k \in DOMAIN d \ {key} : d[k] = ShortDicts[n][k]

\* A run on the letter "Total Amount Due", "1234.56", "Rewards Earned" has
\* reached its completion request with the amount and an empty reward.
C27_Witness ==
  \E r \in Runs :
    /\ LetterNo(r) >= 0 /\ pc[r] = "creating"
    /\ LinesOf(LetterNo(r)) = <<SummaryLines[2], SummaryLines[3], SummaryLines[4]>>
    /\ PromptOf(r).summaryDict["Rewards Earned"] = <<>>
    /\ PromptOf(r).summaryDict["Total Amount Due"] = SummaryLines[3]


(***************************************************************************)
(* normalizeCurrencySymbols on the values with currency signs.             *)
(***************************************************************************)
\* The text of currency signs run r was called with as the value of the
\* amount, 0 and up; -1 when it was called with something else.
TextNo(r) ==
  IF kind[r] = "due" /\ mail[r] > Len(Mailbox) + 1 + NumLetters
    THEN mail[r] - Len(Mailbox) - NumLetters - 2 ELSE -1

\* C28: the value parseBankSummary stored is the normalized text of the
\* value line, and normalizing it once more returns it unchanged:
\* normalize(normalize(x)) = normalize(x).
C28_NormalizeIdempotent ==
  \A r \in Runs :
    TextNo(r) >= 0 =>
      LET x == TextOf(TextNo(r))
          v == PromptOf(r).summaryDict["Total Amount Due"]
      IN  /\ v = normalizeCurrencySymbols(x)
          /\ normalizeCurrencySymbols(v) = v
          /\ normalizeCurrencySymbols(normalizeCurrencySymbols(x))
               = normalizeCurrencySymbols(x)

\* A run whose value had a mis-decoded rupee sign followed by the last of
\* its characters once more has its value normalized: the rupee sign and
\* that character.
C28_Witness ==
  \E r \in Runs :
    /\ TextNo(r) >= 0 /\ pc[r] = "creating"
    /\ TextOf(TextNo(r)) = <<"U+00E2", "U+0082", "U+00B9", "U+00B9">>
    /\ PromptOf(r).summaryDict["Total Amount Due"] = <<"U+20B9", "U+00B9">>


(***************************************************************************)
(* The insert and the notification step of one run.                        *)
(***************************************************************************)
\* The notification step of run r reads the store in this step.
NotifReads(r) == notifPc[r] = "queued" /\ notifPc'[r] = "done"

\* The titles and records of the notifications of run r after the step.
NotedAfter(r) == {notes'[r][i] : i \in 1..Len(notes'[r])}

\* C29: when the notification step of a due-email run reads the store, the
\* insert of that run is over, and when it has added a record, a
\* notification of the run is for that record.
C29_InsertedRecordNotified ==
  [][\A r \in Runs :
       kind[r] = "due" /\ NotifReads(r) =>
         /\ savePc[r] \notin {"open", "queued", "active"}
         /\ savePc[r] = "done" =>
              \E i \in 1..Len(store) :
                /\ KeyOf(store[i]) = KeyOfData(saveArg[r])
                /\ Note("Payment Summary", store[i].id) \in NotedAfter(r)]_vars


(***************************************************************************)
(* The calls of CreateMLCEngine in flight.                                 *)
(***************************************************************************)
\* The calls a script has in flight: those of initializeEngine called by a
\* listener, and those of initializeEngine called by waitForEngine in a run.
InFlight(c) ==
  loading[c]
    + Cardinality({r \in Runs : kind[r] # "none" /\ ctx[r] = c
                                /\ pc[r] = "wait_init"})

\* C30: no script ever has more than one call of CreateMLCEngine in flight
\* (the first half of the claim; with two in flight, the one that resolves
\* second assigns engine once more).
C30_OneInitInFlight == \A c \in Contexts : InFlight(c) <= 1


(***************************************************************************)
(* The shared userToken under two scans.                                   *)
(***************************************************************************)
\* Scan k is past its loop.
LoopOver(k) == scanPc[k] \in {"returned", "sent"} /\ messages[k] # <<>>

\* C31: a scan that got a token, an address and a list of messages, and
\* whose message requests all succeeded, has fetched every message of its
\* list when its loop is over, whatever another scan did to userToken.
C31_EveryMessageFetched ==
  \A k \in Scans :
    LoopOver(k) /\ failed[k] = "none" => fetched[k] = messages[k]


(***************************************************************************)
(* Who summarizes the email a due-email scan selected.                     *)
(***************************************************************************)
\* The runs that start in this step.
Started == {r \in Runs : kind[r] = "none" /\ kind'[r] # "none"}

\* C32: a due-email scan hands its email on once; the run that takes it is
\* one run, of the background script when the scan found popupActive unset
\* and of the popup or (the forward having failed) of the background script
\* when it had sent the message; the message is sent only with popupActive
\* set; and a scan that has returned with a valid email has handed it on.
C32_OneContextSummarizes ==
  /\ [](\A k \in Scans :
          /\ Len(handed[k]) <= 1
          /\ scanPc[k] = "returned" /\ validEmails[k] # <<>>
               => handed[k] = <<FirstValidEmail(validEmails[k])>>)
  /\ [][/\ handed'["due"] # handed["due"] =>
             /\ Cardinality(Started) = 1
             /\ \A r \in Started :
                  /\ kind'[r] = "due"
                  /\ ctx'[r] \in {"bg", "popup"}
                  /\ scanPc["due"] # "sent" => ~popupActive /\ ctx'[r] = "bg"
        /\ scanPc'["due"] = "sent" /\ scanPc["due"] # "sent" =>
             /\ popupActive
             /\ Started = {}
             /\ handed' = handed]_vars

\* The popup summarizes the email of a scan that has returned, and the
\* background script has no run.
C32_Witness ==
  /\ scanPc["due"] = "returned"
  /\ Len(handed["due"]) = 1
  /\ \E r \in Runs : kind[r] = "due" /\ ctx[r] = "popup" /\ mail[r] = handed["due"][1]
  /\ \A r \in Runs : kind[r] # "none" => ctx[r] = "popup"


(***************************************************************************)
(* Up to MaxPorts ports connecting and disconnecting in any order, with    *)
(* the scans they start.                                                   *)
(***************************************************************************)
MaxPorts == 2

PortsNext ==
  \/ \E p \in 1..MaxPorts : PortConnected(p) \/ PortDisconnected(p)
  \/ \E k \in Scans : ScanTriggered(k)
  \/ \E k \in Scans, ok \in BOOLEAN : TokenSettled(k, ok) \/ UserSettled(k, ok)
  \/ \E k \in Scans : ListFailed(k)

SpecPorts == Init /\ [][PortsNext]_vars

\* C33: popupActive is set exactly when a port is connected, and the handler
\* is defined whenever a port is connected.
C33_ActiveIffConnected ==
  /\ popupActive <=> ports # {}
  /\ ports # {} => handler


(***************************************************************************)
(* Inserts after a record was marked paid.                                 *)
(***************************************************************************)
\* C34: no step adds a record whose pair (amount with commas stripped, due
\* date) is that of a stored record marked paid, and an insert that meets
\* such a record ends as a duplicate.
C34_PaidNotReinserted ==
  [][/\ Len(store') > Len(store) =>
          \A i \in 1..Len(store) :
            store[i].paymentStatus = "paid"
              => KeyOf(store'[Len(store')]) # KeyOf(store[i])
     /\ \A r \in Runs :
          /\ savePc[r] = "queued" /\ savePc'[r] \in {"active", "dup"}
          /\ \E i \in 1..Len(store) :
               /\ store[i].paymentStatus = "paid"
               /\ KeyOf(store[i]) = KeyOfData(saveArg[r])
          => savePc'[r] = "dup"]_vars

\* An insert has ended as a duplicate of a record marked paid.
C34_Witness ==
  \E r \in Runs :
    /\ savePc[r] = "dup"
    /\ \E i \in 1..Len(store) :
         /\ store[i].paymentStatus = "paid"
         /\ KeyOf(store[i]) = KeyOfData(saveArg[r])
    /\ \A i \in 1..Len(store) : store[i].paymentStatus = "paid"


(***************************************************************************)
(* The "checkPaymentSuccess" alarm fires every three minutes and each time  *)
(* checkPaymentSuccessEmails lists the inbox again; nothing records which   *)
(* messages an earlier scan handed to handlePaymentSuccess.                 *)
(***************************************************************************)
ScanAgain(k) ==
  /\ UNCHANGED <<alarm, ports, handler, reconciled>>
  /\ scanPc[k] = "returned"
  /\ scanPc' = [scanPc EXCEPT ![k] = "token"]
  /\ messages' = [messages EXCEPT ![k] = <<>>]
  /\ scanI' = [scanI EXCEPT ![k] = 0]
  /\ validEmails' = [validEmails EXCEPT ![k] = <<>>]
  /\ fetched' = [fetched EXCEPT ![k] = <<>>]
  /\ failed' = [failed EXCEPT ![k] = "none"]
  /\ handed' = [handed EXCEPT ![k] = <<>>]
  /\ UNCHANGED <<storeVars, pipeVars, userToken, popupActive, mail>>

\* The payment confirmation of the mailbox, the only message the
\* payment-success query finds.
PaymentMail == 3

\* Two statements of the amount the confirmation names, and the reply of the
\* model to the confirmation.
RepayInputs ==
  {PaymentData(Str(D1), Str(A1234c), Str(BankPadded)),
   PaymentData(Str(D2), Str(A1234), Str(BankX))}

PaidReply == << <<LB, KV("Total Amount Due", Str(P1234)), RB>> >>

\* Statements are stored and payment-success scans run again and again over
\* an inbox that holds the one payment confirmation.
RepayNext ==
  \/ \E r \in Runs, pd \in RepayInputs : RoomToSave /\ CallSave(r, "bg", pd)
  \/ ScanTriggered("success")
  \/ ScanAgain("success")
  \/ TokenSettled("success", TRUE)
  \/ UserSettled("success", TRUE)
  \/ ListSettled("success", <<PaymentMail>>)
  \/ FetchSettled("success")
  \/ PauseOver("success")
  \/ InitializeEngine("bg")
  \/ LoadResolved("bg")
  \/ \E r \in Runs :
       \/ WaitTick(r) \/ WaitInitResolved(r)
       \/ StreamChunk(r) \/ StreamEnded(r) \/ UpdateReturned(r)
  \/ \E r \in Runs : kind[r] = "success" /\ CreateResolved(r, PaidReply)
  \/ \E r \in Runs :
       \/ SaveOpened(r) \/ SaveChecked(r) \/ SaveCommitted(r)
       \/ UpdOpened(r) \/ UpdScanned(r) \/ UpdCommitted(r)

SpecRepay == Init /\ [][RepayNext]_vars

\* The update of run r commits: its puts reach the store.
Commits(r) == updPc[r] = "active" /\ updPc'[r] = "done"

\* Record i was stored when the message of run r was first reconciled.
StoredAtFirst(r, i) == \A h \in reconciled : h.msg = mail[r] => i <= h.len

\* C35: the reconciliation of a payment confirmation marks paid only records
\* that were stored when that confirmation was first reconciled; a record
\* inserted later is not marked when a later payment-success scan finds and
\* re-processes the confirmation.
C35_LaterRecordStaysUnpaid ==
  [][\A r \in Runs, i \in 1..Len(store) :
       /\ kind[r] = "success" /\ mail[r] # 0 /\ Commits(r)
       /\ store[i].paymentStatus # "paid"
       /\ store'[i].paymentStatus = "paid"
       => StoredAtFirst(r, i)]_vars

\* The paid amount handed to updateMatchingRecord by run r does not parse
\* as a number.
PaidUnparsed(r) == updPc[r] # "none" /\ ParseFloat(ToText(updArg[r])).nan

\* C36: a reconciliation whose paid amount does not parse as a number marks
\* no record paid, whatever amounts are stored: its scan of the store puts
\* no record back.
C36_UnparsedMarksNone ==
  \A r \in Runs : PaidUnparsed(r) => updPc[r] # "active" /\ updPuts[r] = <<>>


\* The records the sweep of run r has raised a "Payment Summary"
\* notification for.
Swept(r) ==
  {i \in 1..Len(store) :
     \E j \in 1..Len(notes[r]) : notes[r][j] = Note("Payment Summary", i)}

\* C37: a sweep of the worker with reconciliation that reads the store
\* raises a "Payment Summary" notification for every stored record that is
\* unpaid and for no record that is paid; a paid record stays paid, so it
\* appears in no later sweep.
C37_SweepNotesUnpaidOnly ==
  [][/\ \A r \in Runs :
          NotifReads(r) /\ ctx[r] = "bg" =>
            \A i \in 1..Len(store) :
              Note("Payment Summary", i) \in NotedAfter(r)
                <=> store[i].paymentStatus = "unpaid"
     /\ \A i \in 1..Len(store) :
          store[i].paymentStatus = "paid" =>
            Len(store') >= i /\ store'[i].paymentStatus = "paid"]_vars

\* A sweep has read a store that holds a paid and an unpaid record and has
\* notified of the unpaid one only.
C37_Witness ==
  \E r \in Runs :
    /\ notifPc[r] = "done" /\ ctx[r] = "bg"
    /\ \E i, j \in 1..Len(store) :
         /\ store[i].paymentStatus = "paid"
         /\ store[j].paymentStatus = "unpaid"
         /\ Swept(r) = {j}

=============================================================================
